---- MODULE Spec2Model ----
(***************************************************************************)
(* Chunked translation pipeline of the CV translator.                      *)
(*                                                                         *)
(* Two revisions of the server are in the repository and both are          *)
(* modelled; the value "server" names src/server/index.js and "head" names *)
(* the HEAD side of the unmerged src/unnamed/part_000 (lines 2-406).       *)
(*                                                                         *)
(* The module holds one specification per component:                       *)
(*   SpecRetry   withRetryAndFallback alone, every outcome sequence        *)
(*   SpecStream  POST /api/translate-stream                                *)
(*   SpecBulk    translateInParallel (head) and POST /api/translate-fast   *)
(*               (server)                                                  *)
(*   SpecChunk   smartSplitChunks as a function of its input               *)
(*   SpecHeal    healJSON as a function of its input                       *)
(*   SpecRoundTrip  split, translate, heal and parse of one document       *)
(*   SpecRequests   SpecStream and SpecBulk together                       *)
(*   SpecProgress   the chunk notification of segment i of n               *)
(*   SpecCache      saveCachedTranslation and clear-cache run together     *)
(*   SpecSerialized smartSplitChunks on serialized objects and arrays      *)
(*   SpecClient     translateStream of the client and its abort function   *)
(* The variables of the components a specification does not run keep their *)
(* initial values.                                                         *)
(*                                                                         *)
(* A document is known to the endpoints by the list of segments that       *)
(* smartSplitChunks returns for its serialized text.  The segment loops    *)
(* are run on lists of 1..MaxSegs segments in both revisions, although the *)
(* splitter of the server revision returns a JSON text as one segment.     *)
(***************************************************************************)
EXTENDS Integers, Sequences, FiniteSets, TLC

VARIABLES
    rs,                \* SpecRetry: the frame of one withRetryAndFallback run
    jsonStr,           \* SpecChunk: the text given to smartSplitChunks
    maxLength,         \* SpecChunk: its maxLength argument
    splitOut,          \* SpecChunk: <<"none">> before the call, <<"chunks", list>> after
    healIn,            \* SpecHeal: the text given to healJSON
    healOut,           \* SpecHeal, SpecRoundTrip: <<"none">> before the run, the outcome after
    doc,               \* SpecRoundTrip: the string leaf of the document {"a": leaf}
    total,             \* SpecProgress: chunks.length
    segment,           \* SpecProgress: the loop variable i
    notification,      \* SpecProgress: <<"none">>, or the chunk notification of segment i
    ops,               \* SpecCache: the cache operations, each with its locals
    cleared,           \* SpecCache: a clear ran alone to its end and no save began since
    revision,          \* the revision of the server that handles the request
    endpoint,          \* "stream", "fast", or "parallel" for a bare translateInParallel call
    abortedAt,         \* -1, or Len(started) when the caller aborted the request
    finalParse,        \* "none", or what JSON.parse of the healed text did: "ok", "failed"
    targetLang,        \* req.body.targetLang ("" when missing)
    data,              \* req.body.data, as the list of segments its text splits into
    pc,                \* where the request handler stands
    chunks,            \* const chunks
    idx,               \* the loop variable i of the segment loop / batch loop
    translatedChunks,  \* const translatedChunks
    frames,            \* the withRetryAndFallback calls that have not settled
    started,           \* segment indices, in the order their translation began
    failed,            \* segment indices whose withRetryAndFallback call threw
    events,            \* the notifications written to the response, in order
    ended,             \* res.end() was called
    chunkCache,        \* const chunkCache = new Map() (head revision)
    queue,             \* const queue of translateInParallel
    results,           \* const results of translateInParallel
    maxConcurrent,     \* the maxConcurrent argument of translateInParallel
    response,          \* the reply of POST /api/translate-fast
    cacheIndex,        \* translation-cache/index.json
    cacheFiles,        \* translation-cache/<key>.json
    now,               \* Date.now(), in days
    cacheWrites,       \* number of saveCachedTranslation calls the request made
    wire,              \* SpecClient: the reply to fetch and the notifications not yet read
    clientPc,          \* SpecClient: where the promise chain of translateStream stands
    lines,             \* SpecClient: the notifications of the current read still to handle
    assembledText,     \* SpecClient: let assembledText, as the number of texts appended
    aborted,           \* SpecClient: let aborted
    isTranslating,     \* SpecClient: the state isTranslating of the hook
    error,             \* SpecClient: the state error of the hook
    invoked            \* SpecClient: the calls of onChunk, onComplete, setError and abort, in order

retryVars == <<rs>>
poolVars == <<queue, results, maxConcurrent, response>>
chunkVars == <<jsonStr, maxLength, splitOut>>
healVars == <<healIn, healOut, doc>>
progressVars == <<total, segment, notification>>
opVars == <<ops, cleared>>
reqVars == <<revision, endpoint, abortedAt, finalParse, targetLang, data, pc, chunks, idx, translatedChunks, frames,
             started, failed, events, ended, chunkCache, poolVars>>
cacheVars == <<cacheIndex, cacheFiles, now, cacheWrites>>
clientVars == <<wire, clientPc, lines, assembledText, aborted, isTranslating, error, invoked>>

vars == <<rs, jsonStr, maxLength, splitOut, healIn, healOut, doc,
          total, segment, notification, ops, cleared,
          revision, endpoint, abortedAt, finalParse, targetLang, data, pc, chunks, idx,
          translatedChunks, frames, started, failed, events, ended, chunkCache,
          queue, results, maxConcurrent, response,
          cacheIndex, cacheFiles, now, cacheWrites,
          wire, clientPc, lines, assembledText, aborted, isTranslating, error, invoked>>

Revs == {"server", "head"}

(***************************************************************************)
(* Bounds                                                                  *)
(***************************************************************************)
\* largest `retries` argument given to withRetryAndFallback
MaxRetries == 5
\* longest text given to smartSplitChunks
MaxTextLen == 4
\* largest maxLength given to smartSplitChunks
MaxChunkLen == 3
\* largest number of segments of a document
MaxSegs == 4
\* largest maxConcurrent given to translateInParallel
MaxWorkers == 2
\* largest number of segments given to a bare translateInParallel call
MaxPoolSegs == 3
\* the last day on which a request arrives
MaxDay == 15
\* longest text given to healJSON
MaxHealLen == 3
\* longest string leaf of a document
MaxLeafLen == 3
\* largest number of segments whose chunk notifications are computed
MaxTotal == 40
\* largest number of cache operations that run together
MaxOps == 3
\* chunk notifications of one streamed reply read by the client
MaxFrames == 3

(***************************************************************************)
(* Errors thrown by the generative-text service: an HTTP status and the    *)
(* substrings the code looks for in the error's text.                      *)
(***************************************************************************)
Errors == [status : {429, 503, 400}, text : SUBSET {"429", "503", "quota"}]

\* err.status === 429 || `${err}`.includes("429") [|| `${err}`.includes("quota")]
is429(rev, err) ==
    \/ err.status = 429
    \/ "429" \in err.text
    \/ rev = "server" /\ "quota" \in err.text

\* err.status === 503 || `${err}`.includes("503")
is503(rev, err) ==
    \/ err.status = 503
    \/ "503" \in err.text

\* let delay = 500 (server) / let delay = 300 (head)
SeedDelay(rev) == IF rev = "server" THEN 500 ELSE 300

\* the model handed to fn at the top of a loop iteration
\*   server: attempt >= 2 ? fallbackModel : primaryModel
\*   head:   always primaryModel (the fallback is a nested call, see OnError)
ModelFor(rev, attempt) ==
    IF rev = "server"
    THEN IF attempt >= 2 THEN "fallbackModel" ELSE "primaryModel"
    ELSE "primaryModel"

\* what the latest resolved call of fn gave: nothing yet, a value, or an error
NoOutcome == [kind |-> "none", status |-> 0, text |-> {}]
OkOutcome == [kind |-> "ok", status |-> 0, text |-> {}]
ErrOutcome(err) == [kind |-> "error", status |-> err.status, text |-> err.text]
\* throw new Error("Translation failed after [all ]retries")
Exhausted == [kind |-> "exhausted", status |-> 0, text |-> {}]

CallEvent(model, attempt) ==
    [ev |-> "call", model |-> model, attempt |-> attempt, delay |-> 0]
SleepEvent(delay, attempt) ==
    [ev |-> "sleep", model |-> "-", attempt |-> attempt, delay |-> delay]

\* The frame before the call: not running.
IdleRetry ==
    [rev |-> "server", retries |-> 0, attempt |-> 0, delay |-> 0, pc |-> "idle",
     model |-> "-", nested |-> FALSE, last |-> NoOutcome, error |-> NoOutcome,
     calls |-> 0, log |-> <<>>]

\* The loop test and, when it passes, the call `fn(model)` of the try block;
\* when it fails, the throw after the loop.
LoopTop(r) ==
    IF r.attempt < r.retries
    THEN [r EXCEPT !.pc = "call",
                   !.model = ModelFor(r.rev, r.attempt),
                   !.nested = FALSE,
                   !.calls = @ + 1,
                   !.log = Append(@, CallEvent(ModelFor(r.rev, r.attempt), r.attempt))]
    ELSE [r EXCEPT !.pc = "thrown", !.error = Exhausted, !.model = "-", !.nested = FALSE]

\* withRetryAndFallback(fn, retries) up to its first await.
RetryStart(rev, retries) ==
    LoopTop([IdleRetry EXCEPT !.rev = rev, !.retries = retries,
                              !.delay = SeedDelay(rev)])

\* if (attempt < retries - 1) { await sleep(delay) ... } and otherwise the end
\* of the loop body: attempt++ and the loop test.
SleepOrNext(r) ==
    IF r.attempt < r.retries - 1
    THEN [r EXCEPT !.pc = "sleep", !.model = "-", !.nested = FALSE,
                   !.log = Append(@, SleepEvent(r.delay, r.attempt))]
    ELSE LoopTop([r EXCEPT !.attempt = @ + 1])

\* `return await fn(model)` resolved with a value.
OnSuccess(r) ==
    [r EXCEPT !.pc = "returned", !.last = OkOutcome, !.model = "-", !.nested = FALSE]

\* the nested try of the head revision: the third iteration (i === 2) calls
\* fn(fallbackModel) after a retryable failure of fn(primaryModel)
NestedFallback(r) ==
    [r EXCEPT !.pc = "call", !.model = "fallbackModel", !.nested = TRUE,
              !.calls = @ + 1,
              !.log = Append(@, CallEvent("fallbackModel", r.attempt))]

\* the catch block, entered with the error of the call in flight
OnErrorServer(r, err) ==
    LET r1 == [r EXCEPT !.last = ErrOutcome(err)] IN
    IF is429("server", err) \/ is503("server", err)
    THEN SleepOrNext(r1)
    ELSE [r1 EXCEPT !.pc = "thrown", !.error = ErrOutcome(err), !.model = "-"]

OnErrorHead(r, err) ==
    LET r1 == [r EXCEPT !.last = ErrOutcome(err)] IN
    IF r.nested
    THEN \* catch (fallbackErr) { console.error(...) }: swallowed, whatever it is
         SleepOrNext(r1)
    ELSE IF is429("head", err) \/ is503("head", err)
         THEN IF r.attempt = 2 THEN NestedFallback(r1) ELSE SleepOrNext(r1)
         ELSE [r1 EXCEPT !.pc = "thrown", !.error = ErrOutcome(err), !.model = "-"]

OnError(r, err) ==
    IF r.rev = "server" THEN OnErrorServer(r, err) ELSE OnErrorHead(r, err)

\* OnWake without `delay *= 2`
OnWakeKeepsDelay(r) ==
    LoopTop([r EXCEPT !.attempt = @ + 1])

\* the timer of the backoff sleep fired: delay *= 2, next iteration
OnWake(r) ==
    LoopTop([r EXCEPT !.delay = @ * 2, !.attempt = @ + 1])

RetryDone(r) == r.pc \in {"returned", "thrown"}

\* the empty map {}
EmptyMap == [x \in {} |-> 0]

\* no reply sent yet
NoResponse == [status |-> 0, body |-> <<>>]

\* The components at rest: no text to split, no request, an empty cache.
RetryIdle == rs = IdleRetry
ChunkIdle == jsonStr = <<>> /\ maxLength = 0 /\ splitOut = <<"none">>
HealIdle == healIn = <<>> /\ healOut = <<"none">> /\ doc = <<>>
ProgressIdle == total = 0 /\ segment = 0 /\ notification = <<"none">>
OpsIdle == ops = <<>> /\ cleared = FALSE
ClientIdle ==
    /\ wire = [ok |-> TRUE, frames |-> <<>>] /\ clientPc = "none" /\ lines = <<>>
    /\ assembledText = 0 /\ aborted = FALSE /\ isTranslating = FALSE
    /\ error = "null" /\ invoked = <<>>
HandlerIdle ==
    /\ endpoint = "none" /\ abortedAt = -1 /\ finalParse = "none" /\ targetLang = "" /\ data = <<>> /\ pc = "idle"
    /\ chunks = <<>> /\ idx = 0 /\ translatedChunks = <<>> /\ frames = EmptyMap
    /\ started = <<>> /\ failed = {} /\ events = <<>> /\ ended = FALSE
    /\ chunkCache = EmptyMap
    /\ queue = <<>> /\ results = <<>> /\ maxConcurrent = 0 /\ response = NoResponse
RequestIdle == revision = "server" /\ HandlerIdle
CacheIdle ==
    cacheIndex = EmptyMap /\ cacheFiles = EmptyMap /\ now = 0 /\ cacheWrites = 0

(***************************************************************************)
(* SpecRetry: one run of withRetryAndFallback against a service that may   *)
(* answer each call with a value or with any error.                        *)
(***************************************************************************)
RetryInit ==
    /\ \E rev \in Revs, n \in 1..MaxRetries : rs = RetryStart(rev, n)
    /\ ChunkIdle /\ HealIdle /\ ProgressIdle /\ OpsIdle /\ RequestIdle /\ CacheIdle /\ ClientIdle

CallSucceeds ==
    /\ rs.pc = "call"
    /\ rs' = OnSuccess(rs)
    /\ UNCHANGED <<chunkVars, healVars, progressVars, opVars, reqVars, cacheVars, clientVars>>

CallFails ==
    /\ rs.pc = "call"
    /\ \E err \in Errors : rs' = OnError(rs, err)
    /\ UNCHANGED <<chunkVars, healVars, progressVars, opVars, reqVars, cacheVars, clientVars>>

SleepEnds ==
    /\ rs.pc = "sleep"
    /\ rs' = OnWake(rs)
    /\ UNCHANGED <<chunkVars, healVars, progressVars, opVars, reqVars, cacheVars, clientVars>>

RetryNext == CallSucceeds \/ CallFails \/ SleepEnds

SpecRetry == RetryInit /\ [][RetryNext]_vars

(***************************************************************************)
(* smartSplitChunks (server revision).  A text is a sequence of characters.*)
(***************************************************************************)
Chars == {"{", "}", "[", "]", "\"", "\\", " ", "a"}

\* the characters String.prototype.trim and \s take for blanks
IsSpace(c) == c \in {" ", "\n"}

RECURSIVE TrimStart(_)
TrimStart(t) ==
    IF t # <<>> /\ IsSpace(Head(t)) THEN TrimStart(Tail(t)) ELSE t

RECURSIVE TrimEnd(_)
TrimEnd(t) ==
    IF t # <<>> /\ IsSpace(t[Len(t)]) THEN TrimEnd(SubSeq(t, 1, Len(t) - 1)) ELSE t

\* String.prototype.trim
Trim(t) == TrimEnd(TrimStart(t))

\* Array.prototype.join("")
RECURSIVE Join(_)
Join(list) == IF list = <<>> THEN <<>> ELSE Head(list) \o Join(Tail(list))

\* the locals of smartSplitChunks before the loop
ScanInit ==
    [chunks |-> <<>>, current |-> <<>>, braceCount |-> 0,
     inString |-> FALSE, escapeNext |-> FALSE]

\* ScanStep with the escaped character left out of the buffer
ScanStepDropsEscaped(st, char, maxLen) ==
    IF st.escapeNext
    THEN [st EXCEPT !.escapeNext = FALSE]
    ELSE IF char = "\\"
    THEN [st EXCEPT !.escapeNext = TRUE, !.current = Append(@, char)]
    ELSE LET inStr == IF char = "\"" THEN ~st.inString ELSE st.inString
             count == IF inStr THEN st.braceCount
                      ELSE IF char \in {"{", "["} THEN st.braceCount + 1
                      ELSE IF char \in {"}", "]"} THEN st.braceCount - 1
                      ELSE st.braceCount
             cur   == Append(st.current, char)
         IN  IF Len(cur) >= maxLen /\ count = 0 /\ ~inStr
             THEN [st EXCEPT !.chunks = Append(@, Trim(cur)), !.current = <<>>,
                             !.braceCount = count, !.inString = inStr]
             ELSE [st EXCEPT !.current = cur, !.braceCount = count,
                             !.inString = inStr]

\* ScanStep with a split test that does not look at inString
ScanStepSplitsInString(st, char, maxLen) ==
    IF st.escapeNext
    THEN [st EXCEPT !.current = Append(@, char), !.escapeNext = FALSE]
    ELSE IF char = "\\"
    THEN [st EXCEPT !.escapeNext = TRUE, !.current = Append(@, char)]
    ELSE LET inStr == IF char = "\"" THEN ~st.inString ELSE st.inString
             count == IF inStr THEN st.braceCount
                      ELSE IF char \in {"{", "["} THEN st.braceCount + 1
                      ELSE IF char \in {"}", "]"} THEN st.braceCount - 1
                      ELSE st.braceCount
             cur   == Append(st.current, char)
         IN  IF Len(cur) >= maxLen /\ count = 0
             THEN [st EXCEPT !.chunks = Append(@, Trim(cur)), !.current = <<>>,
                             !.braceCount = count, !.inString = inStr]
             ELSE [st EXCEPT !.current = cur, !.braceCount = count,
                             !.inString = inStr]

\* ScanStep with a bracket count that does not look at inString
ScanStepCountsInStrings(st, char, maxLen) ==
    IF st.escapeNext
    THEN [st EXCEPT !.current = Append(@, char), !.escapeNext = FALSE]
    ELSE IF char = "\\"
    THEN [st EXCEPT !.escapeNext = TRUE, !.current = Append(@, char)]
    ELSE LET inStr == IF char = "\"" THEN ~st.inString ELSE st.inString
             count == IF char \in {"{", "["} THEN st.braceCount + 1
                      ELSE IF char \in {"}", "]"} THEN st.braceCount - 1
                      ELSE st.braceCount
             cur   == Append(st.current, char)
         IN  IF Len(cur) >= maxLen /\ count = 0 /\ ~inStr
             THEN [st EXCEPT !.chunks = Append(@, Trim(cur)), !.current = <<>>,
                             !.braceCount = count, !.inString = inStr]
             ELSE [st EXCEPT !.current = cur, !.braceCount = count,
                             !.inString = inStr]

\* one iteration of the for loop, on character char
ScanStep(st, char, maxLen) ==
    IF st.escapeNext
    THEN [st EXCEPT !.current = Append(@, char), !.escapeNext = FALSE]
    ELSE IF char = "\\"
    THEN [st EXCEPT !.escapeNext = TRUE, !.current = Append(@, char)]
    ELSE LET inStr == IF char = "\"" THEN ~st.inString ELSE st.inString
             count == IF inStr THEN st.braceCount
                      ELSE IF char \in {"{", "["} THEN st.braceCount + 1
                      ELSE IF char \in {"}", "]"} THEN st.braceCount - 1
                      ELSE st.braceCount
             cur   == Append(st.current, char)
         IN  IF Len(cur) >= maxLen /\ count = 0 /\ ~inStr
             THEN [st EXCEPT !.chunks = Append(@, Trim(cur)), !.current = <<>>,
                             !.braceCount = count, !.inString = inStr]
             ELSE [st EXCEPT !.current = cur, !.braceCount = count,
                             !.inString = inStr]

\* the for loop over text[1..n]
RECURSIVE ScanTo(_, _, _)
ScanTo(text, n, maxLen) ==
    IF n = 0 THEN ScanInit
    ELSE ScanStep(ScanTo(text, n - 1, maxLen), text[n], maxLen)

\* if (current.trim()) chunks.push(current.trim())
FlushRest(st) ==
    IF Trim(st.current) # <<>> THEN Append(st.chunks, Trim(st.current)) ELSE st.chunks

\* the return statement without its filter
NonEmptyOnlyKeepsAll(list) == list

\* chunks.filter(c => c.length > 0)
NonEmptyOnly(list) == SelectSeq(list, LAMBDA c : Len(c) > 0)

smartSplitChunks(text, maxLen) ==
    NonEmptyOnly(FlushRest(ScanTo(text, Len(text), maxLen)))

(***************************************************************************)
(* SpecChunk: smartSplitChunks applied to every text of at most MaxTextLen *)
(* characters and every maxLength in 1..MaxChunkLen.                       *)
(***************************************************************************)
Texts == UNION {[1..n -> Chars] : n \in 0..MaxTextLen}

ChunkInit ==
    /\ jsonStr \in Texts
    /\ maxLength \in 1..MaxChunkLen
    /\ splitOut = <<"none">>
    /\ RetryIdle /\ HealIdle /\ ProgressIdle /\ OpsIdle /\ RequestIdle /\ CacheIdle /\ ClientIdle

SplitChunks ==
    /\ splitOut = <<"none">>
    /\ splitOut' = <<"chunks", smartSplitChunks(jsonStr, maxLength)>>
    /\ UNCHANGED <<rs, jsonStr, maxLength, healVars, progressVars, opVars, reqVars, cacheVars, clientVars>>

ChunkNext == SplitChunks

SpecChunk == ChunkInit /\ [][ChunkNext]_vars

(***************************************************************************)
(* healJSON, in both revisions                                             *)
(***************************************************************************)
\* the character U+0060 of the code fences
Tick == "tick"

\* text.startsWith(pat)
StartsWith(t, pat) == Len(t) >= Len(pat) /\ SubSeq(t, 1, Len(pat)) = pat

\* (text.match(/c/g) || []).length
Count(t, c) == Len(SelectSeq(t, LAMBDA x : x = c))

\* c.repeat(n)
Repeat(c, n) == [i \in 1..n |-> c]

\* text.replace(/<fence>\n?/g, ''): every occurrence of fence, with the
\* newline after it when there is one, is taken out, left to right
RECURSIVE RemoveFence(_, _)
RemoveFence(t, fence) ==
    IF t = <<>> THEN <<>>
    ELSE IF StartsWith(t, fence)
    THEN LET rest == SubSeq(t, Len(fence) + 1, Len(t)) IN
         RemoveFence(IF rest # <<>> /\ Head(rest) = "\n" THEN Tail(rest) ELSE rest, fence)
    ELSE <<Head(t)>> \o RemoveFence(Tail(t), fence)

\* text.replace(/,(\s*[}\]])/g, '$1'): a comma followed by blanks and a
\* closer is dropped, the blanks and the closer stay; the search goes on
\* after the closer
RECURSIVE DropTrailingCommas(_)
DropTrailingCommas(t) ==
    IF t = <<>> THEN <<>>
    ELSE LET rest == TrimStart(Tail(t))
             gap  == SubSeq(Tail(t), 1, Len(Tail(t)) - Len(rest))
         IN  IF Head(t) = "," /\ rest # <<>> /\ Head(rest) \in {"}", "]"}
             THEN gap \o <<Head(rest)>> \o DropTrailingCommas(Tail(rest))
             ELSE <<Head(t)>> \o DropTrailingCommas(Tail(t))

\* text.replace(/x\s*y/g, r): x, blanks and y are replaced by r; the search
\* goes on after y
RECURSIVE ReplaceAcrossBlanks(_, _, _, _)
ReplaceAcrossBlanks(t, x, y, r) ==
    IF t = <<>> THEN <<>>
    ELSE LET rest == TrimStart(Tail(t)) IN
         IF Head(t) = x /\ rest # <<>> /\ Head(rest) = y
         THEN r \o ReplaceAcrossBlanks(Tail(rest), x, y, r)
         ELSE <<Head(t)>> \o ReplaceAcrossBlanks(Tail(t), x, y, r)

\* text.replace(/([^\\])"/g, '$1"'): every match is replaced by itself
RequoteQuotes(t) == t

\* the closers appended for the openers that have none: braces, then
\* brackets, all four counts taken before anything is appended
AppendClosers(t) ==
    LET openBraces == Count(t, "{")
        closeBraces == Count(t, "}")
        openBrackets == Count(t, "[")
        closeBrackets == Count(t, "]")
    IN  t \o (IF openBraces > closeBraces
              THEN Repeat("}", openBraces - closeBraces) ELSE <<>>)
          \o (IF openBrackets > closeBrackets
              THEN Repeat("]", openBrackets - closeBrackets) ELSE <<>>)

\* healJSON of src/server/index.js
healJSONServer(t) ==
    LET trimmed  == Trim(t)
        unfenced == RemoveFence(RemoveFence(trimmed, <<Tick, Tick, Tick, "j", "s", "o", "n">>),
                                <<Tick, Tick, Tick>>)
        uncomma  == DropTrailingCommas(unfenced)
    IN  AppendClosers(RequoteQuotes(uncomma))

\* healJSON of the HEAD revision
healJSONHead(t) ==
    LET trimmed == Trim(t)
        r1 == ReplaceAcrossBlanks(trimmed, ",", "}", <<"}">>)
        r2 == ReplaceAcrossBlanks(r1, ",", "]", <<"]">>)
        r3 == ReplaceAcrossBlanks(r2, "}", "{", <<"}", ",", "{">>)
        r4 == ReplaceAcrossBlanks(r3, "]", "[", <<"]", ",", "[">>)
        opened == IF r4 # <<>> /\ Head(r4) \in {"{", "["} THEN r4 ELSE <<"{">> \o r4
        closed == IF opened[Len(opened)] \in {"}", "]"} THEN opened ELSE opened \o <<"}">>
    IN  AppendClosers(closed)

healJSON(rev, t) == IF rev = "server" THEN healJSONServer(t) ELSE healJSONHead(t)

(***************************************************************************)
(* SpecHeal: healJSON applied once and twice to every text of at most      *)
(* MaxHealLen characters.                                                  *)
(***************************************************************************)
HealChars == {"{", "}", "[", "]", ",", Tick, "\"", " ", "a"}

HealTexts == UNION {[1..n -> HealChars] : n \in 0..MaxHealLen}

HealInit ==
    /\ healIn \in HealTexts
    /\ revision \in Revs
    /\ healOut = <<"none">> /\ doc = <<>>
    /\ RetryIdle /\ ChunkIdle /\ ProgressIdle /\ OpsIdle /\ HandlerIdle /\ CacheIdle /\ ClientIdle

HealTwice ==
    /\ healOut = <<"none">>
    /\ healOut' = <<"healed", healJSON(revision, healIn),
                    healJSON(revision, healJSON(revision, healIn))>>
    /\ UNCHANGED <<healIn, doc, retryVars, chunkVars, progressVars, opVars, reqVars, cacheVars, clientVars>>

HealNext == HealTwice

SpecHeal == HealInit /\ [][HealNext]_vars

(***************************************************************************)
(* SpecRoundTrip: the pipeline of the server revision on the document      *)
(* {"a": leaf} with a translator that returns the segment it is given.     *)
(***************************************************************************)
LeafChars == {"{", "}", "[", "]", ",", Tick, "\"", "a"}

Leaves == UNION {[1..n -> LeafChars] : n \in 0..MaxLeafLen}

\* the content of a string literal as JSON.stringify writes it: a quote and
\* a backslash are preceded by a backslash
RECURSIVE Escape(_)
Escape(leaf) ==
    IF leaf = <<>> THEN <<>>
    ELSE (IF Head(leaf) \in {"\"", "\\"} THEN <<"\\", Head(leaf)>> ELSE <<Head(leaf)>>)
         \o Escape(Tail(leaf))

\* JSON.stringify({a: leaf})
Stringify(leaf) == <<"{", "\"", "a", "\"", ":", "\"">> \o Escape(leaf) \o <<"\"", "}">>

\* the outcomes of JSON.parse: a SyntaxError, or the document {"a": leaf}
ParseError == [ok |-> FALSE, leaf |-> <<>>]
Parsed(leaf) == [ok |-> TRUE, leaf |-> leaf]

\* The content of a string literal read back; <<"error">> when it holds a
\* quote or a lone backslash, which end or break the literal.
RECURSIVE Unescape(_)
Unescape(body) ==
    IF body = <<>> THEN <<"ok">>
    ELSE IF Head(body) = "\""  THEN <<"error">>
    ELSE IF Head(body) = "\\"
    THEN IF Len(body) >= 2 /\ body[2] \in {"\"", "\\"}
         THEN LET rest == Unescape(Tail(Tail(body))) IN
              IF rest[1] = "ok" THEN <<"ok", body[2]>> \o Tail(rest) ELSE rest
         ELSE <<"error">>
    ELSE LET rest == Unescape(Tail(body)) IN
         IF rest[1] = "ok" THEN <<"ok", Head(body)>> \o Tail(rest) ELSE rest

\* JSON.parse on the texts the pipeline makes of such a document: the text
\* is {"a":"..."} with a well-formed literal, or it does not parse
Parse(t) ==
    LET open == <<"{", "\"", "a", "\"", ":", "\"">>
        close == <<"\"", "}">>
    IN  IF /\ Len(t) >= Len(open) + Len(close)
           /\ StartsWith(t, open)
           /\ SubSeq(t, Len(t) - 1, Len(t)) = close
        THEN LET u == Unescape(SubSeq(t, Len(open) + 1, Len(t) - 2)) IN
             IF u[1] = "ok" THEN Parsed(Tail(u)) ELSE ParseError
        ELSE ParseError

\* translateChunk with a model that returns the segment: healJSON of it
RECURSIVE HealEach(_)
HealEach(list) ==
    IF list = <<>> THEN <<>>
    ELSE <<healJSON("server", Head(list))>> \o HealEach(Tail(list))

\* split, translate every segment, join, heal, parse
Pipeline(t, maxLen) ==
    Parse(healJSON("server", Join(HealEach(smartSplitChunks(t, maxLen)))))

\* The endpoints split at 800 characters; the documents here being short,
\* the limit is drawn from 1..MaxChunkLen so that the scan reaches it.
RoundTripInit ==
    /\ doc \in Leaves
    /\ jsonStr = Stringify(doc)
    /\ maxLength \in 1..MaxChunkLen
    /\ splitOut = <<"none">>
    /\ healIn = <<>> /\ healOut = <<"none">>
    /\ RetryIdle /\ ProgressIdle /\ OpsIdle /\ RequestIdle /\ CacheIdle /\ ClientIdle

RoundTrip ==
    /\ healOut = <<"none">>
    /\ healOut' = <<"parsed", Pipeline(jsonStr, maxLength)>>
    /\ UNCHANGED <<healIn, doc, retryVars, chunkVars, progressVars, opVars, reqVars, cacheVars, clientVars>>

RoundTripNext == RoundTrip

SpecRoundTrip == RoundTripInit /\ [][RoundTripNext]_vars

(***************************************************************************)
(* SpecSerialized: smartSplitChunks applied to JSON.stringify(data) for    *)
(* documents whose top level is an object or an array, as the endpoints    *)
(* call it.                                                                *)
(***************************************************************************)
\* the limit the stream endpoint passes (the default of the parameter too)
DefaultMaxLength == 800

\* the string values: brackets, quotes, backslashes, blanks and letters
StringValues == UNION {[1..n -> Chars] : n \in 0..MaxLeafLen}

\* JSON.stringify of a string: the escaped content between quotes
StringLiteral(leaf) == <<"\"">> \o Escape(leaf) \o <<"\"">>

\* JSON.stringify({a: v}) and JSON.stringify([v]), [v, w], given the
\* serialized members
ObjectOf(v) == <<"{", "\"", "a", "\"", ":">> \o v \o <<"}">>
ArrayOf(v) == <<"[">> \o v \o <<"]">>
ArrayOfTwo(v, w) == <<"[">> \o v \o <<",">> \o w \o <<"]">>

\* JSON.stringify({}) and JSON.stringify([])
EmptyContainers == {<<"{", "}">>, <<"[", "]">>}

\* the serialized documents: empty containers, a string in an object or an
\* array, a string after a container, and the same one level deeper
SerializedDocuments ==
    LET lits == {StringLiteral(l) : l \in StringValues} IN
    EmptyContainers
    \cup {ObjectOf(v) : v \in lits \cup EmptyContainers}
    \cup {ArrayOf(v) : v \in lits \cup EmptyContainers}
    \cup {ArrayOfTwo(c, v) : c \in EmptyContainers, v \in lits}
    \cup {ObjectOf(ArrayOfTwo(c, v)) : c \in EmptyContainers, v \in lits}

\* const jsonStr = JSON.stringify(data); the limit is 800 at the call, and
\* is also drawn from 1..MaxChunkLen so that short documents reach it
SerializedInit ==
    /\ jsonStr \in SerializedDocuments
    /\ maxLength \in (1..MaxChunkLen) \cup {DefaultMaxLength}
    /\ splitOut = <<"none">>
    /\ RetryIdle /\ HealIdle /\ ProgressIdle /\ OpsIdle /\ RequestIdle /\ CacheIdle /\ ClientIdle

SerializedNext == SplitChunks

SpecSerialized == SerializedInit /\ [][SerializedNext]_vars

(***************************************************************************)
(* Segments, the translation call and the frames of the calls in progress  *)
(***************************************************************************)
\* A segment of the serialized document: its first 50 characters and the
\* rest.  `kind` tells a segment as split ("original") from what the service
\* returned for it ("translated").
Seg(first50, rest) == [kind |-> "original", first50 |-> first50, rest |-> rest]
NoValue == [kind |-> "none", first50 |-> 0, rest |-> 0]

\* result.response.text() for a prompt that holds segment seg
Translated(seg) == [seg EXCEPT !.kind = "translated"]

\* The documents of n segments; the segments of one document differ, and two
\* of them may begin with the same 50 characters.
Documents(n) == {[i \in 1..n |-> Seg(f[i], i)] : f \in [1..n -> 1..2]}
\* The documents of n segments that all begin differently.
PlainDocuments(n) == {[i \in 1..n |-> Seg(i, i)]}

Languages == {"Spanish"}

\* retries = 5 (server) / retries = 4 (head): the endpoints pass no second argument
DefaultRetries(rv) == IF rv = "server" THEN 5 ELSE 4

\* const cacheKey = `${targetLang}:${text.substring(0, 50)}` (head)
ChunkCacheKey(lang, seg) == <<lang, seg.first50>>

\* Map.prototype.set
MapSet(map, key, value) ==
    [k \in DOMAIN map \cup {key} |-> IF k = key THEN value ELSE map[k]]
\* delete map[key]
MapDrop(map, key) == [k \in DOMAIN map \ {key} |-> map[k]]

\* translateChunk up to its first await: the head revision returns the entry
\* of chunkCache when there is one and calls the service otherwise.
CallFn(f, r, lang, cache) ==
    IF r.pc = "call" /\ r.rev = "head" /\ ChunkCacheKey(lang, f.item.chunk) \in DOMAIN cache
    THEN [f EXCEPT !.rs = r, !.hit = TRUE,
                   !.value = cache[ChunkCacheKey(lang, f.item.chunk)]]
    ELSE [f EXCEPT !.rs = r, !.hit = FALSE, !.value = NoValue]

\* withRetryAndFallback((model) => translateChunk(item.chunk, targetLang, model))
NewFrame(rv, item, lang, cache) ==
    CallFn([item |-> item, rs |-> IdleRetry, hit |-> FALSE, value |-> NoValue],
           RetryStart(rv, DefaultRetries(rv)), lang, cache)

\* the call of fn resolved: with the cached entry, or with the service's answer
FrameOk(f) ==
    [f EXCEPT !.rs = OnSuccess(f.rs),
              !.hit = FALSE,
              !.value = IF f.hit THEN f.value ELSE Translated(f.item.chunk)]

\* chunkCache.set(cacheKey, translated), after the service answered (head)
CacheAfterOk(f, lang, cache) ==
    IF f.rs.rev = "head" /\ ~f.hit
    THEN MapSet(cache, ChunkCacheKey(lang, f.item.chunk), Translated(f.item.chunk))
    ELSE cache

\* the call of fn rejected with err
FrameErr(f, err, lang, cache) == CallFn(f, OnError(f.rs, err), lang, cache)

\* the backoff timer fired
FrameWake(f, lang, cache) == CallFn(f, OnWake(f.rs), lang, cache)

\* the frames whose request to the service is in flight
InFlight == {k \in DOMAIN frames : frames[k].rs.pc = "call" /\ ~frames[k].hit}

\* The errors the service answers with in the endpoint specifications: one
\* rate-limit error and one permanent error.
RateLimited == [status |-> 429, text |-> {"429"}]
BadRequest == [status |-> 400, text |-> {}]
ServiceErrors == {RateLimited, BadRequest}

(***************************************************************************)
(* The translation cache on disk (server revision)                         *)
(***************************************************************************)
\* const maxAge = 7 * 24 * 60 * 60 * 1000, in days
maxAge == 7

\* generateCacheKey: `${targetLang}_${hash of JSON.stringify(data)}`; the
\* hash is taken to tell any two documents of the model apart
generateCacheKey(d, lang) == <<lang, d>>

\* getCachedTranslation without its test of the entry's age
getCachedTranslationAnyAge(cacheKey) ==
    IF cacheKey \notin DOMAIN cacheIndex THEN <<>>
    ELSE IF cacheKey \notin DOMAIN cacheFiles THEN <<>>
    ELSE cacheFiles[cacheKey]

\* getCachedTranslation; <<>> stands for null.  An expired entry is a miss
\* and stays in the index and on disk.
getCachedTranslation(cacheKey) ==
    IF cacheKey \notin DOMAIN cacheIndex THEN <<>>
    ELSE IF now - cacheIndex[cacheKey].timestamp > maxAge THEN <<>>
    ELSE IF cacheKey \notin DOMAIN cacheFiles THEN <<>>
    ELSE cacheFiles[cacheKey]

\* saveCachedTranslation
saveCachedTranslation(cacheKey, payload, lang) ==
    /\ cacheFiles' = MapSet(cacheFiles, cacheKey, payload)
    /\ cacheIndex' = MapSet(cacheIndex, cacheKey,
                            [timestamp |-> now, language |-> lang])
    /\ cacheWrites' = cacheWrites + 1
    /\ UNCHANGED now

\* GET /api/cache-stats: the number of entries of the index and the number
\* of entries per language
cacheStats ==
    [totalTranslations |-> Cardinality(DOMAIN cacheIndex),
     languages |-> [l \in {cacheIndex[k].language : k \in DOMAIN cacheIndex} |->
                       Cardinality({k \in DOMAIN cacheIndex : cacheIndex[k].language = l})]]

(***************************************************************************)
(* POST /api/translate-stream                                              *)
(***************************************************************************)
\* the parameter test with its first half only
MissingParametersDataOnly(lang, d) == d = <<>>

\* if (!targetLang || !data)
MissingParameters(lang, d) == lang = "" \/ d = <<>>

StartEvent(n, cached) ==
    [type |-> "start", index |-> 0, text |-> <<>>, progress |-> 0, chunks |-> n,
     cached |-> cached]
ChunkEvent(i, text, progress) ==
    [type |-> "chunk", index |-> i, text |-> text, progress |-> progress,
     chunks |-> 0, cached |-> FALSE]
DoneEvent(cached) ==
    [type |-> "done", index |-> 0, text |-> <<>>, progress |-> 0, chunks |-> 0,
     cached |-> cached]
ErrorEvent ==
    [type |-> "error", index |-> 0, text |-> <<>>, progress |-> 0, chunks |-> 0,
     cached |-> FALSE]

(***************************************************************************)
(* Number arithmetic.  A Number in (0, 2^24) is held as its significand, a *)
(* list of Precision bits of which the first is 1, and an exponent:        *)
(* value = (bits read as a binary numeral) * 2^exp.  Division and          *)
(* multiplication round their exact result to the nearest such value, ties *)
(* to the even significand.  Numerals are multiplied in limbs of LimbBits  *)
(* bits, which keeps every intermediate value below 2^31.                  *)
(***************************************************************************)
\* the significand of a Number has 53 bits
Precision == 53

\* the bits of a limb of a numeral: a significand is three limbs
LimbBits == (Precision + 2) \div 3

Zeros(k) == [j \in 1..k |-> 0]

RECURSIVE Pow2(_)
Pow2(k) == IF k = 0 THEN 1 ELSE 2 * Pow2(k - 1)

\* 2^k modulo n
RECURSIVE Pow2Mod(_, _)
Pow2Mod(k, n) ==
    IF k = 0 THEN 1 % n
    ELSE LET h == Pow2Mod(k \div 2, n) IN
         (((h * h) % n) * (IF k % 2 = 1 THEN 2 ELSE 1)) % n

\* what is left of r after k bits of r / n: r * 2^k modulo n
DivRem(r, n, k) == (r * Pow2Mod(k, n)) % n

\* the first k bits of r / n after the binary point, for 0 <= r < n
DivBits(r, n, k) == [j \in 1..k |-> (2 * DivRem(r, n, j - 1)) \div n]

\* the zero bits of r / n between the binary point and its first 1 bit
RECURSIVE LeadZeros(_, _)
LeadZeros(r, n) == IF 2 * r >= n THEN 0 ELSE 1 + LeadZeros(2 * r, n)

\* the numeral plus one, with the carry out of its first bit: the last 0
\* bit becomes 1 and the 1 bits after it become 0
IncBits(bits) ==
    IF \A j \in 1..Len(bits) : bits[j] = 1
    THEN [bits |-> Zeros(Len(bits)), carry |-> 1]
    ELSE LET last == CHOOSE j \in 1..Len(bits) :
                        bits[j] = 0 /\ \A k \in (j + 1)..Len(bits) : bits[k] = 1
         IN  [bits |-> [j \in 1..Len(bits) |->
                          IF j < last THEN bits[j] ELSE IF j = last THEN 1 ELSE 0],
              carry |-> 0]

\* the Number for significand mant and exponent e, one unit of the last
\* place higher when up
Rounded(mant, e, up) ==
    IF ~up THEN [bits |-> mant, exp |-> e]
    ELSE IF IncBits(mant).carry = 1
    THEN [bits |-> <<1>> \o Zeros(Precision - 1), exp |-> e + 1]
    ELSE [bits |-> IncBits(mant).bits, exp |-> e]

\* a / n for integers 0 < a <= n
FloatDiv(a, n) ==
    IF a = n THEN [bits |-> <<1>> \o Zeros(Precision - 1), exp |-> 1 - Precision]
    ELSE LET z == LeadZeros(a, n)
             mant == SubSeq(DivBits(a, n, z + Precision), z + 1, z + Precision)
             rem == DivRem(a, n, z + Precision)
         IN  Rounded(mant, 0 - (z + Precision),
                     2 * rem > n \/ (2 * rem = n /\ mant[Precision] = 1))

\* the numeral of v in w bits
ToBits(v, w) == [j \in 1..w |-> (v \div Pow2(w - j)) % 2]

\* the value of a numeral of at most 30 bits
RECURSIVE BitsToInt(_)
BitsToInt(bits) ==
    IF bits = <<>> THEN 0
    ELSE 2 * BitsToInt(SubSeq(bits, 1, Len(bits) - 1)) + bits[Len(bits)]

\* the numeral without its leading zeros
StripZeros(bits) ==
    IF \A j \in 1..Len(bits) : bits[j] = 0 THEN <<>>
    ELSE SubSeq(bits, CHOOSE j \in 1..Len(bits) :
                         bits[j] = 1 /\ \A k \in 1..(j - 1) : bits[k] = 0,
                Len(bits))

\* the numeral of bits * c, for a numeral of Precision bits and an integer
\* 1 <= c < 2^12: the limbs are multiplied from the last to the first, each
\* with the carry of the one after it
MulSmall(bits, c) ==
    LET base == Pow2(LimbBits)
        hi == Precision - 2 * LimbBits
        p3 == BitsToInt(SubSeq(bits, hi + LimbBits + 1, Precision)) * c
        p2 == BitsToInt(SubSeq(bits, hi + 1, hi + LimbBits)) * c + p3 \div base
        p1 == BitsToInt(SubSeq(bits, 1, hi)) * c + p2 \div base
    IN  StripZeros(ToBits(p1, 30)) \o ToBits(p2 % base, LimbBits)
                                   \o ToBits(p3 % base, LimbBits)

\* x * c for a Number x and an integer 1 <= c < 2^12
FloatMul(x, c) ==
    LET p == MulSmall(x.bits, c)
        mant == SubSeq(p, 1, Precision)
        tail == SubSeq(p, Precision + 1, Len(p))
        sticky == \E j \in 2..Len(tail) : tail[j] = 1
    IN  Rounded(mant, x.exp + Len(tail),
                tail # <<>> /\ tail[1] = 1 /\ (sticky \/ mant[Precision] = 1))

\* Math.round(x) for a Number 1 <= x < 2^24: the integer nearest to x, the
\* higher one when x lies halfway
MathRound(x) ==
    LET k == Precision + x.exp IN
    BitsToInt(SubSeq(x.bits, 1, k)) + x.bits[k + 1]

\* Math.round(((i + 1) / chunks.length) * 100)
Progress(i, n) == MathRound(FloatMul(FloatDiv(i + 1, n), 100))

(***************************************************************************)
(* SpecProgress: the chunk notification of segment i of a document of n    *)
(* segments, for every n in 1..MaxTotal and every i below n.               *)
(***************************************************************************)
ProgressInit ==
    /\ total \in 1..MaxTotal
    /\ segment \in 0..(total - 1)
    /\ notification = <<"none">>
    /\ RetryIdle /\ ChunkIdle /\ HealIdle /\ OpsIdle /\ RequestIdle /\ CacheIdle /\ ClientIdle

\* const progress = Math.round(...); res.write(`event: chunk ...`)
NotifyChunk ==
    /\ notification = <<"none">>
    /\ notification' = <<"chunk", ChunkEvent(segment, <<>>, Progress(segment, total))>>
    /\ UNCHANGED <<total, segment, retryVars, chunkVars, healVars, opVars, reqVars, cacheVars, clientVars>>

ProgressNext == NotifyChunk

SpecProgress == ProgressInit /\ [][ProgressNext]_vars

\* res.write(...); res.end()
WriteAndEnd(evs) ==
    /\ events' = events \o evs
    /\ ended' = TRUE
    /\ pc' = "closed"

\* one turn of the segment loop with every segment from i on started at once
WholeRestAtOnce(i, n) == {k \in i..(i + 1) : k < n}

\* the segments whose translation one turn of the segment loop starts and
\* awaits: chunks[i] alone
SegmentsOfTurn(i, n) == {i}

\* the body of the segment loop up to its await: the translation of segment i
TranslateSegment(list, i) ==
    /\ idx' = i
    /\ frames' = [k \in SegmentsOfTurn(i, Len(list)) |->
                     NewFrame(revision, [chunk |-> list[k + 1], index |-> k],
                              targetLang, chunkCache)]
    /\ started' = Append(started, i)
    /\ pc' = "translate"

\* const chunks = smartSplitChunks(jsonStr, ...); the start notification; the
\* first turn of the segment loop
BeginStream ==
    /\ chunks' = data
    /\ events' = Append(events, StartEvent(Len(data), FALSE))
    /\ TranslateSegment(data, 0)
    /\ UNCHANGED <<translatedChunks, failed, ended, chunkCache>>

\* the handler from its entry to its first await
StreamRequest ==
    /\ endpoint = "stream"
    /\ pc = "request"
    /\ IF MissingParameters(targetLang, data)
       THEN /\ WriteAndEnd(<<ErrorEvent>>)
            /\ UNCHANGED <<chunks, idx, translatedChunks, frames, started, failed,
                           chunkCache>>
       ELSE IF revision = "server"
       THEN /\ pc' = "lookup"
            /\ UNCHANGED <<chunks, idx, translatedChunks, frames, started, failed,
                           events, ended, chunkCache>>
       ELSE BeginStream
    /\ UNCHANGED <<revision, endpoint, abortedAt, finalParse, targetLang, data, poolVars, retryVars, chunkVars, healVars, progressVars, opVars, cacheVars, clientVars>>

\* getCachedTranslation resolved (server)
StreamLookup ==
    /\ endpoint = "stream"
    /\ pc = "lookup"
    /\ LET cached == getCachedTranslation(generateCacheKey(data, targetLang)) IN
       IF cached # <<>>
       THEN /\ WriteAndEnd(<<StartEvent(1, TRUE), ChunkEvent(0, cached, 100),
                             DoneEvent(TRUE)>>)
            /\ UNCHANGED <<chunks, idx, translatedChunks, frames, started, failed,
                           chunkCache>>
       ELSE BeginStream
    /\ UNCHANGED <<revision, endpoint, abortedAt, finalParse, targetLang, data, poolVars, retryVars, chunkVars, healVars, progressVars, opVars, cacheVars, clientVars>>

\* the catch of a segment without its res.end() and return
ChunkFailedGoesOn(i) ==
    /\ events' = Append(events, ErrorEvent)
    /\ pc' = "pause"
    /\ failed' = failed \cup {i}
    /\ frames' = EmptyMap
    /\ UNCHANGED <<chunks, idx, translatedChunks, started, ended>>

\* catch (chunkError): the error notification, res.end(), return
ChunkFailed(i) ==
    /\ WriteAndEnd(<<ErrorEvent>>)
    /\ failed' = failed \cup {i}
    /\ frames' = EmptyMap
    /\ UNCHANGED <<chunks, idx, translatedChunks, started>>

\* withRetryAndFallback returned: push, the chunk notification, the pause
StreamCallOk ==
    /\ endpoint = "stream"
    /\ pc = "translate"
    /\ \E k \in DOMAIN frames :
          /\ frames[k].rs.pc = "call"
          /\ LET f == FrameOk(frames[k]) IN
             /\ translatedChunks' = Append(translatedChunks, f.value)
             /\ events' = Append(events,
                                 ChunkEvent(idx, <<f.value>>, Progress(idx, Len(chunks))))
             /\ chunkCache' = CacheAfterOk(frames[k], targetLang, chunkCache)
          /\ frames' = MapDrop(frames, k)
    /\ pc' = "pause"
    /\ UNCHANGED <<revision, endpoint, abortedAt, finalParse, targetLang, data, chunks, idx, started, failed, ended,
                   poolVars, retryVars, chunkVars, healVars, progressVars, opVars, cacheVars, clientVars>>

\* the service rejected the call in flight
StreamCallFails ==
    /\ endpoint = "stream"
    /\ pc = "translate"
    /\ \E k \in DOMAIN frames, err \in ServiceErrors :
          /\ frames[k].rs.pc = "call" /\ ~frames[k].hit
          /\ LET f == FrameErr(frames[k], err, targetLang, chunkCache) IN
             IF f.rs.pc = "thrown"
             THEN ChunkFailed(idx)
             ELSE /\ frames' = [frames EXCEPT ![k] = f]
                  /\ UNCHANGED <<pc, chunks, idx, translatedChunks, started, failed,
                                 events, ended>>
    /\ UNCHANGED <<revision, endpoint, abortedAt, finalParse, targetLang, data, chunkCache, poolVars, retryVars, chunkVars, healVars, progressVars, opVars,
                   cacheVars, clientVars>>

\* the backoff sleep of the call in progress ended
StreamSleepEnds ==
    /\ endpoint = "stream"
    /\ pc = "translate"
    /\ \E k \in DOMAIN frames :
          /\ frames[k].rs.pc = "sleep"
          /\ frames' = [frames EXCEPT ![k] = FrameWake(frames[k], targetLang, chunkCache)]
    /\ UNCHANGED <<revision, endpoint, abortedAt, finalParse, targetLang, data, pc, chunks, idx, translatedChunks,
                   started, failed, events, ended, chunkCache, poolVars, retryVars, chunkVars, healVars, progressVars, opVars,
                   cacheVars, clientVars>>

\* the code after the loop with done written whatever JSON.parse did
ValidateAlwaysDone(parses) ==
    /\ IF ~parses THEN WriteAndEnd(<<ErrorEvent, DoneEvent(FALSE)>>)
       ELSE IF revision = "server"
            THEN pc' = "save" /\ UNCHANGED <<events, ended>>
            ELSE WriteAndEnd(<<DoneEvent(FALSE)>>)
    /\ finalParse' = IF parses THEN "ok" ELSE "failed"
    /\ idx' = idx + 1
    /\ UNCHANGED <<chunks, translatedChunks, frames, started, failed>>

\* the code after the loop with saveCachedTranslation outside the try: the
\* error notification of a failed JSON.parse is followed by the save
ValidateThenSaveAnyway(parses) ==
    /\ IF ~parses
       THEN /\ events' = Append(events, ErrorEvent)
            /\ IF revision = "server" THEN pc' = "save" /\ UNCHANGED ended
               ELSE ended' = TRUE /\ pc' = "closed"
       ELSE IF revision = "server"
            THEN pc' = "save" /\ UNCHANGED <<events, ended>>
            ELSE WriteAndEnd(<<DoneEvent(FALSE)>>)
    /\ finalParse' = IF parses THEN "ok" ELSE "failed"
    /\ idx' = idx + 1
    /\ UNCHANGED <<chunks, translatedChunks, frames, started, failed>>

\* after the loop: healJSON and JSON.parse of the joined text; on failure the
\* error notification and res.end(), on success the done notification (in
\* the server revision after saveCachedTranslation)
CombineAndValidate(parses) ==
    /\ IF ~parses THEN WriteAndEnd(<<ErrorEvent>>)
       ELSE IF revision = "server"
            THEN pc' = "save" /\ UNCHANGED <<events, ended>>
            ELSE WriteAndEnd(<<DoneEvent(FALSE)>>)
    /\ finalParse' = IF parses THEN "ok" ELSE "failed"
    /\ idx' = idx + 1
    /\ UNCHANGED <<chunks, translatedChunks, frames, started, failed>>

\* the pause after a chunk notification ended: i++, and either the next
\* segment or the code after the loop
StreamPauseEnds ==
    /\ endpoint = "stream"
    /\ pc = "pause"
    /\ IF idx + 1 < Len(chunks)
       THEN /\ TranslateSegment(chunks, idx + 1)
            /\ UNCHANGED <<chunks, translatedChunks, failed, events, ended, finalParse>>
       ELSE \E parses \in BOOLEAN : CombineAndValidate(parses)
    /\ UNCHANGED <<revision, endpoint, abortedAt, targetLang, data, chunkCache, poolVars, retryVars, chunkVars, healVars, progressVars, opVars,
                   cacheVars, clientVars>>

\* saveCachedTranslation resolved (server): the done notification, res.end()
StreamSaved ==
    /\ endpoint = "stream"
    /\ pc = "save"
    /\ saveCachedTranslation(generateCacheKey(data, targetLang), translatedChunks,
                             targetLang)
    /\ WriteAndEnd(<<DoneEvent(FALSE)>>)
    /\ UNCHANGED <<revision, endpoint, abortedAt, finalParse, targetLang, data, chunks, idx, translatedChunks, frames,
                   started, failed, chunkCache, poolVars, retryVars, chunkVars, healVars, progressVars, opVars, clientVars>>

\* the caller aborts the streamed request while the handler is at an await:
\* the connection closes; the handler has no listener for it and no test of it
ClientAborts ==
    /\ endpoint = "stream"
    /\ pc \in {"lookup", "translate", "pause", "save"}
    /\ abortedAt = -1
    /\ abortedAt' = Len(started)
    /\ UNCHANGED <<revision, endpoint, finalParse, targetLang, data, pc, chunks, idx, translatedChunks,
                   frames, started, failed, events, ended, chunkCache, poolVars,
                   retryVars, chunkVars, healVars, progressVars, opVars, cacheVars, clientVars>>

\* the days between a request and the next one
Gaps == {maxAge, maxAge + 1}

\* A later request to the same endpoint for the same document and language:
\* the handler starts anew; the cache on disk and chunkCache are as the
\* earlier request left them.
LaterRequest ==
    /\ endpoint \in {"stream", "fast"}
    /\ pc = "closed"
    /\ \E d \in Gaps : now + d <= MaxDay /\ now' = now + d
    /\ pc' = "request"
    /\ chunks' = <<>> /\ idx' = 0 /\ translatedChunks' = <<>> /\ frames' = EmptyMap
    /\ started' = <<>> /\ failed' = {} /\ events' = <<>> /\ ended' = FALSE
    /\ response' = NoResponse /\ abortedAt' = -1 /\ finalParse' = "none"
    /\ cacheWrites' = 0
    /\ UNCHANGED <<revision, endpoint, targetLang, data, chunkCache, queue, results,
                   maxConcurrent, cacheIndex, cacheFiles, retryVars, chunkVars, healVars, progressVars, opVars, clientVars>>

\* A request body: a target language or none, a document or none.
RequestBodies ==
    [targetLang : Languages \cup {""},
     data : {<<>>} \cup UNION {Documents(n) : n \in 1..MaxSegs}]

\* The cache a request may find: empty, or holding the translation an earlier
\* request for the same document and language stored at day 0.
EarlierPayload(d) == [i \in 1..Len(d) |-> Translated(d[i])]
CacheStates(body) ==
    LET key == generateCacheKey(body.data, body.targetLang) IN
    {[index |-> EmptyMap, files |-> EmptyMap]} \cup
    IF body.targetLang = "" \/ body.data = <<>> THEN {}
    ELSE {[index |-> (key :> [timestamp |-> 0, language |-> body.targetLang]),
           files |-> (key :> EarlierPayload(body.data))]}

StreamInit ==
    /\ RetryIdle /\ ChunkIdle /\ HealIdle /\ ProgressIdle /\ OpsIdle /\ ClientIdle
    /\ endpoint = "stream" /\ abortedAt = -1 /\ finalParse = "none"
    /\ revision \in Revs
    /\ \E body \in RequestBodies :
          /\ targetLang = body.targetLang
          /\ data = body.data
          /\ IF revision = "server"
             THEN /\ \E c \in CacheStates(body) :
                        cacheIndex = c.index /\ cacheFiles = c.files
                  /\ now \in {maxAge, maxAge + 1}
             ELSE cacheIndex = EmptyMap /\ cacheFiles = EmptyMap /\ now = maxAge
    /\ cacheWrites = 0
    /\ pc = "request"
    /\ chunks = <<>> /\ idx = 0 /\ translatedChunks = <<>> /\ frames = EmptyMap
    /\ started = <<>> /\ failed = {} /\ events = <<>> /\ ended = FALSE
    /\ chunkCache = EmptyMap
    /\ queue = <<>> /\ results = <<>> /\ maxConcurrent = 0 /\ response = NoResponse

StreamNext ==
    \/ StreamRequest
    \/ StreamLookup
    \/ StreamCallOk
    \/ StreamCallFails
    \/ StreamSleepEnds
    \/ StreamPauseEnds
    \/ StreamSaved
    \/ ClientAborts
    \/ LaterRequest

SpecStream == StreamInit /\ [][StreamNext]_vars

(***************************************************************************)
(* Bulk mode: translateInParallel (head) and the batch loop of             *)
(* POST /api/translate-fast (server)                                       *)
(***************************************************************************)
\* the upper end without the bound
MinTakesSecond(a, b) == b

\* Math.min, and the upper end of Array.prototype.slice
Min(a, b) == IF a < b THEN a ELSE b

\* chunks.map((chunk, index) => ({ chunk, index }))
Items(list) == [i \in 1..Len(list) |-> [chunk |-> list[i], index |-> i - 1]]

\* a failed segment that leaves nothing behind
SubstituteNothing(item) == NoValue

\* results[item.index] = item.chunk (head) / return chunk (server): the
\* original text stands in for a segment whose translation failed
Substitute(item) == item.chunk

\* A settled frame keeps its outcome and its value; the attempt state is gone.
Settle(f) == [f EXCEPT !.rs = [IdleRetry EXCEPT !.rev = f.rs.rev, !.pc = f.rs.pc]]
Settled(f) == RetryDone(f.rs)

\* queue[0] read without being removed
ShiftLeavesItem(q) == [item |-> Head(q), rest |-> q]

\* queue.shift()
Shift(q) == [item |-> Head(q), rest |-> Tail(q)]

\* translateInParallel(chunks, targetLang, maxConcurrent) up to its await:
\* results, queue, and every worker run to its first await
ParallelStart ==
    /\ endpoint = "parallel"
    /\ pc = "call"
    /\ LET n == Len(chunks)
           taken == Min(maxConcurrent, n)
       IN  /\ results' = [i \in 1..n |-> NoValue]
           /\ queue' = SubSeq(Items(chunks), taken + 1, n)
           /\ frames' = [w \in 0..(taken - 1) |->
                            NewFrame("head", Items(chunks)[w + 1], targetLang, chunkCache)]
           /\ started' = [p \in 1..taken |-> p - 1]
    /\ pc' = "await"
    /\ UNCHANGED <<revision, endpoint, abortedAt, finalParse, targetLang, data, chunks, idx, translatedChunks, failed,
                   events, ended, chunkCache, maxConcurrent, response,
                   retryVars, chunkVars, healVars, progressVars, opVars, cacheVars, clientVars>>

\* the next turn of worker w's while loop, with chunkCache as it is then
WorkerLoop(w, cache) ==
    IF queue # <<>>
    THEN /\ frames' = [frames EXCEPT ![w] = NewFrame("head", Shift(queue).item,
                                                     targetLang, cache)]
         /\ queue' = Shift(queue).rest
         /\ started' = Append(started, Shift(queue).item.index)
    ELSE /\ frames' = MapDrop(frames, w)
         /\ UNCHANGED <<queue, started>>

\* a worker's withRetryAndFallback returned: results[item.index] = translated
ParallelCallOk ==
    /\ endpoint = "parallel"
    /\ pc = "await"
    /\ \E w \in DOMAIN frames :
          /\ frames[w].rs.pc = "call"
          /\ LET f == FrameOk(frames[w])
                 cache == CacheAfterOk(frames[w], targetLang, chunkCache)
             IN  /\ results' = [results EXCEPT ![f.item.index + 1] = f.value]
                 /\ chunkCache' = cache
                 /\ WorkerLoop(w, cache)
    /\ UNCHANGED <<revision, endpoint, abortedAt, finalParse, targetLang, data, pc, chunks, idx, translatedChunks,
                   failed, events, ended, maxConcurrent, response,
                   retryVars, chunkVars, healVars, progressVars, opVars, cacheVars, clientVars>>

\* the service rejected a worker's call; when withRetryAndFallback throws,
\* results[item.index] = item.chunk
ParallelCallFails ==
    /\ endpoint = "parallel"
    /\ pc = "await"
    /\ \E w \in DOMAIN frames, err \in ServiceErrors :
          /\ frames[w].rs.pc = "call" /\ ~frames[w].hit
          /\ LET f == FrameErr(frames[w], err, targetLang, chunkCache) IN
             IF f.rs.pc = "thrown"
             THEN /\ results' = [results EXCEPT ![f.item.index + 1] = Substitute(f.item)]
                  /\ failed' = failed \cup {f.item.index}
                  /\ WorkerLoop(w, chunkCache)
             ELSE /\ frames' = [frames EXCEPT ![w] = f]
                  /\ UNCHANGED <<results, failed, queue, started>>
    /\ UNCHANGED <<revision, endpoint, abortedAt, finalParse, targetLang, data, pc, chunks, idx, translatedChunks,
                   events, ended, chunkCache, maxConcurrent, response,
                   retryVars, chunkVars, healVars, progressVars, opVars, cacheVars, clientVars>>

\* the backoff sleep of a worker's call ended
ParallelSleepEnds ==
    /\ endpoint = "parallel"
    /\ pc = "await"
    /\ \E w \in DOMAIN frames :
          /\ frames[w].rs.pc = "sleep"
          /\ frames' = [frames EXCEPT ![w] = FrameWake(frames[w], targetLang, chunkCache)]
    /\ UNCHANGED <<revision, endpoint, abortedAt, finalParse, targetLang, data, pc, chunks, idx, translatedChunks,
                   started, failed, events, ended, chunkCache, poolVars,
                   retryVars, chunkVars, healVars, progressVars, opVars, cacheVars, clientVars>>

\* await Promise.all(workers) resolved: return results
ParallelReturn ==
    /\ endpoint = "parallel"
    /\ pc = "await"
    /\ frames = EmptyMap
    /\ pc' = "returned"
    /\ UNCHANGED <<revision, endpoint, abortedAt, finalParse, targetLang, data, chunks, idx, translatedChunks, frames,
                   started, failed, events, ended, chunkCache, poolVars,
                   retryVars, chunkVars, healVars, progressVars, opVars, cacheVars, clientVars>>

\* const batchSize = 3
batchSize == 3

\* res.status(400).json(...), res.json(...), res.status(500).json(...)
Reply(status, body) ==
    /\ response' = [status |-> status, body |-> body]
    /\ pc' = "closed"

\* chunks.slice(i, i + batchSize).map(...): one withRetryAndFallback call per
\* segment of the batch, all started before the await
StartBatch(list, i) ==
    /\ idx' = i
    /\ frames' = [k \in i..(Min(i + batchSize, Len(list)) - 1) |->
                     NewFrame("server", Items(list)[k + 1], targetLang, chunkCache)]
    /\ started' = started \o [p \in 1..(Min(i + batchSize, Len(list)) - i) |-> i + p - 1]
    /\ pc' = "batch"

\* the handler of the fast endpoint from its entry to its first await
FastRequest ==
    /\ endpoint = "fast"
    /\ pc = "request"
    /\ IF MissingParameters(targetLang, data)
       THEN Reply(400, <<>>)
       ELSE pc' = "lookup" /\ UNCHANGED response
    /\ UNCHANGED <<revision, endpoint, abortedAt, finalParse, targetLang, data, chunks, idx, translatedChunks, frames,
                   started, failed, events, ended, chunkCache, queue, results,
                   maxConcurrent, retryVars, chunkVars, healVars, progressVars, opVars, cacheVars, clientVars>>

\* getCachedTranslation resolved: the cached document, or the first batch
FastLookup ==
    /\ endpoint = "fast"
    /\ pc = "lookup"
    /\ LET cached == getCachedTranslation(generateCacheKey(data, targetLang)) IN
       IF cached # <<>>
       THEN /\ Reply(200, cached)
            /\ UNCHANGED <<chunks, idx, frames, started>>
       ELSE /\ chunks' = data
            /\ StartBatch(data, 0)
            /\ UNCHANGED response
    /\ UNCHANGED <<revision, endpoint, abortedAt, finalParse, targetLang, data, translatedChunks, failed, events, ended,
                   chunkCache, queue, results, maxConcurrent,
                   retryVars, chunkVars, healVars, progressVars, opVars, cacheVars, clientVars>>

\* batchResults, in the order of the batch
BatchResults(fs) ==
    [p \in 1..Cardinality(DOMAIN fs) |-> fs[idx + p - 1].value]

\* AfterBatches with the handler's catch replying with the joined segments
AfterBatchesRepliesDocument(parses) ==
    /\ frames' = EmptyMap
    /\ idx' = idx + batchSize
    /\ IF parses THEN pc' = "save" /\ UNCHANGED response
       ELSE Reply(200, translatedChunks')
    /\ finalParse' = IF parses THEN "ok" ELSE "failed"
    /\ UNCHANGED started

\* after the batch loop: join, healJSON, JSON.parse; a parse error is caught
\* by the handler's catch (500), otherwise saveCachedTranslation is awaited
AfterBatches(parses) ==
    /\ frames' = EmptyMap
    /\ idx' = idx + batchSize
    /\ IF parses THEN pc' = "save" /\ UNCHANGED response
       ELSE Reply(500, <<>>)
    /\ finalParse' = IF parses THEN "ok" ELSE "failed"
    /\ UNCHANGED started

\* a call of the batch settled, leaving the batch as fs: when it was the last
\* one, Promise.all resolves, the results are pushed and the loop goes on
BatchStep(fs) ==
    IF \A k \in DOMAIN fs : Settled(fs[k])
    THEN /\ translatedChunks' = translatedChunks \o BatchResults(fs)
         /\ IF idx + batchSize < Len(chunks)
            THEN StartBatch(chunks, idx + batchSize) /\ UNCHANGED <<response, finalParse>>
            ELSE \E parses \in BOOLEAN : AfterBatches(parses)
    ELSE /\ frames' = fs
         /\ UNCHANGED <<translatedChunks, idx, started, pc, response, finalParse>>

\* a withRetryAndFallback call of the batch returned
FastCallOk ==
    /\ endpoint = "fast"
    /\ pc = "batch"
    /\ \E k \in DOMAIN frames :
          /\ frames[k].rs.pc = "call"
          /\ BatchStep([frames EXCEPT ![k] = Settle(FrameOk(frames[k]))])
    /\ UNCHANGED <<revision, endpoint, abortedAt, targetLang, data, chunks, failed, events, ended,
                   chunkCache, queue, results, maxConcurrent,
                   retryVars, chunkVars, healVars, progressVars, opVars, cacheVars, clientVars>>

\* the service rejected a call of the batch; when withRetryAndFallback throws,
\* the .catch handler returns the original chunk
FastCallFails ==
    /\ endpoint = "fast"
    /\ pc = "batch"
    /\ \E k \in DOMAIN frames, err \in ServiceErrors :
          /\ frames[k].rs.pc = "call" /\ ~frames[k].hit
          /\ LET f == FrameErr(frames[k], err, targetLang, chunkCache) IN
             IF f.rs.pc = "thrown"
             THEN /\ failed' = failed \cup {k}
                  /\ BatchStep([frames EXCEPT
                                  ![k] = Settle([f EXCEPT !.value = Substitute(f.item)])])
             ELSE /\ frames' = [frames EXCEPT ![k] = f]
                  /\ UNCHANGED <<failed, translatedChunks, idx, started, pc, response, finalParse>>
    /\ UNCHANGED <<revision, endpoint, abortedAt, targetLang, data, chunks, events, ended,
                   chunkCache, queue, results, maxConcurrent,
                   retryVars, chunkVars, healVars, progressVars, opVars, cacheVars, clientVars>>

\* the backoff sleep of a call of the batch ended
FastSleepEnds ==
    /\ endpoint = "fast"
    /\ pc = "batch"
    /\ \E k \in DOMAIN frames :
          /\ frames[k].rs.pc = "sleep"
          /\ frames' = [frames EXCEPT ![k] = FrameWake(frames[k], targetLang, chunkCache)]
    /\ UNCHANGED <<revision, endpoint, abortedAt, finalParse, targetLang, data, pc, chunks, idx, translatedChunks,
                   started, failed, events, ended, chunkCache, poolVars,
                   retryVars, chunkVars, healVars, progressVars, opVars, cacheVars, clientVars>>

\* saveCachedTranslation resolved: res.json(finalResult)
FastSaved ==
    /\ endpoint = "fast"
    /\ pc = "save"
    /\ saveCachedTranslation(generateCacheKey(data, targetLang), translatedChunks,
                             targetLang)
    /\ Reply(200, translatedChunks)
    /\ UNCHANGED <<revision, endpoint, abortedAt, finalParse, targetLang, data, chunks, idx, translatedChunks, frames,
                   started, failed, events, ended, chunkCache, queue, results,
                   maxConcurrent, retryVars, chunkVars, healVars, progressVars, opVars, clientVars>>

\* translateInParallel called with a list of segments and a pool size
ParallelInit ==
    /\ RetryIdle /\ ChunkIdle /\ HealIdle /\ ProgressIdle /\ OpsIdle /\ CacheIdle /\ ClientIdle
    /\ revision = "head" /\ endpoint = "parallel" /\ abortedAt = -1 /\ finalParse = "none"
    /\ targetLang \in Languages
    /\ chunks \in UNION {Documents(n) : n \in 1..MaxPoolSegs}
    /\ data = chunks
    /\ maxConcurrent \in 1..MaxWorkers
    /\ pc = "call"
    /\ idx = 0 /\ translatedChunks = <<>> /\ frames = EmptyMap
    /\ started = <<>> /\ failed = {} /\ events = <<>> /\ ended = FALSE
    /\ chunkCache = EmptyMap
    /\ queue = <<>> /\ results = <<>> /\ response = NoResponse

\* a request to the fast endpoint of the server revision
FastInit ==
    /\ RetryIdle /\ ChunkIdle /\ HealIdle /\ ProgressIdle /\ OpsIdle /\ ClientIdle
    /\ revision = "server" /\ endpoint = "fast" /\ abortedAt = -1 /\ finalParse = "none"
    /\ \E body \in [targetLang : Languages \cup {""},
                    data : {<<>>} \cup UNION {PlainDocuments(n) : n \in 1..MaxSegs}] :
          /\ targetLang = body.targetLang
          /\ data = body.data
          /\ \E c \in CacheStates(body) : cacheIndex = c.index /\ cacheFiles = c.files
    /\ now \in {maxAge, maxAge + 1}
    /\ cacheWrites = 0
    /\ pc = "request"
    /\ chunks = <<>> /\ idx = 0 /\ translatedChunks = <<>> /\ frames = EmptyMap
    /\ started = <<>> /\ failed = {} /\ events = <<>> /\ ended = FALSE
    /\ chunkCache = EmptyMap
    /\ queue = <<>> /\ results = <<>> /\ maxConcurrent = 0 /\ response = NoResponse

BulkInit == ParallelInit \/ FastInit

BulkNext ==
    \/ ParallelStart
    \/ ParallelCallOk
    \/ ParallelCallFails
    \/ ParallelSleepEnds
    \/ ParallelReturn
    \/ FastRequest
    \/ FastLookup
    \/ FastCallOk
    \/ FastCallFails
    \/ FastSleepEnds
    \/ FastSaved
    \/ LaterRequest

SpecBulk == BulkInit /\ [][BulkNext]_vars

(***************************************************************************)
(* Both endpoints and translateInParallel together                         *)
(***************************************************************************)
RequestsInit == StreamInit \/ BulkInit

RequestsNext == StreamNext \/ BulkNext

SpecRequests == RequestsInit /\ [][RequestsNext]_vars

(***************************************************************************)
(* SpecCache: saveCachedTranslation and POST /api/clear-cache as they run  *)
(* together on the event loop, one step per await.  fs.writeFile,          *)
(* fs.readFile, fs.readdir and fs.unlink each take effect in one step.     *)
(***************************************************************************)
CacheLanguages == {"Spanish", "French"}

\* the cache keys of one document in each language
CacheKeys == {generateCacheKey(d, lang) : d \in PlainDocuments(1), lang \in CacheLanguages}

\* the translated document stored under a key
PayloadOf(key) == EarlierPayload(key[2])

\* The files of CACHE_DIR: index.json, and `${cacheKey}.json` for a key.
IndexFile == [index |-> TRUE, key |-> <<"", <<>>>>]
PayloadFile(key) == [index |-> FALSE, key |-> key]

\* fs.readdir(CACHE_DIR) without index.json
DiskFilesPayloadsOnly ==
    {PayloadFile(k) : k \in DOMAIN cacheFiles}

\* fs.readdir(CACHE_DIR): index.json is there once saveCacheIndex wrote it,
\* and it never holds an empty index
DiskFiles ==
    {PayloadFile(k) : k \in DOMAIN cacheFiles} \cup
    (IF cacheIndex # EmptyMap THEN {IndexFile} ELSE {})

\* loadCacheIndex: the content of index.json, {} when the file is missing
loadCacheIndex == cacheIndex

\* an operation that has not begun
IdleOp ==
    [kind |-> "none", pc |-> "idle", key |-> <<"", <<>>>>, index |-> EmptyMap,
     files |-> {}, status |-> 0, alone |-> FALSE]

InFlightOps == {o \in DOMAIN ops : ops[o].pc \notin {"idle", "done"}}

\* operation o begins as op: a clear that is in flight is no longer alone
Begin(o, op) ==
    [p \in DOMAIN ops |->
        IF p = o THEN op
        ELSE IF ops[p].kind = "clear" THEN [ops[p] EXCEPT !.alone = FALSE]
        ELSE ops[p]]

\* saveCachedTranslation(cacheKey, data, targetLang) up to its first await:
\* fs.writeFile(cacheFile, ...) is called
StartSave(o) ==
    /\ ops[o].pc = "idle"
    /\ \E k \in CacheKeys :
          ops' = Begin(o, [IdleOp EXCEPT !.kind = "save", !.pc = "write", !.key = k])
    /\ cleared' = FALSE
    /\ UNCHANGED <<cacheVars, retryVars, chunkVars, healVars, progressVars, reqVars, clientVars>>

\* the payload file is written; loadCacheIndex is called
SaveWritesFile(o) ==
    /\ ops[o].pc = "write"
    /\ cacheFiles' = MapSet(cacheFiles, ops[o].key, PayloadOf(ops[o].key))
    /\ ops' = [ops EXCEPT ![o].pc = "load"]
    /\ UNCHANGED <<cleared, cacheIndex, now, cacheWrites,
                   retryVars, chunkVars, healVars, progressVars, reqVars, clientVars>>

\* loadCacheIndex resolved: cacheIndex[cacheKey] = {...}; saveCacheIndex is
\* called with the copy
SaveLoadsIndex(o) ==
    /\ ops[o].pc = "load"
    /\ ops' = [ops EXCEPT ![o].pc = "store",
                          ![o].index = MapSet(loadCacheIndex, ops[o].key,
                                              [timestamp |-> now,
                                               language |-> ops[o].key[1]])]
    /\ UNCHANGED <<cleared, cacheVars, retryVars, chunkVars, healVars, progressVars, reqVars, clientVars>>

\* saveCacheIndex: index.json is written with the copy
SaveStoresIndex(o) ==
    /\ ops[o].pc = "store"
    /\ cacheIndex' = ops[o].index
    /\ ops' = [ops EXCEPT ![o].pc = "done", ![o].status = 200]
    /\ UNCHANGED <<cleared, cacheFiles, now, cacheWrites,
                   retryVars, chunkVars, healVars, progressVars, reqVars, clientVars>>

\* POST /api/clear-cache up to its first await: fs.readdir is called
StartClear(o) ==
    /\ ops[o].pc = "idle"
    /\ ops' = Begin(o, [IdleOp EXCEPT !.kind = "clear", !.pc = "readdir",
                                      !.alone = (InFlightOps = {})])
    /\ UNCHANGED <<cleared, cacheVars, retryVars, chunkVars, healVars, progressVars, reqVars, clientVars>>

\* the end of the handler of clear-cache, with its reply
ClearEnds(o, files, status) ==
    /\ ops' = [ops EXCEPT ![o].pc = "done", ![o].files = files, ![o].status = status]
    /\ cleared' = IF status = 200 /\ ops[o].alone THEN TRUE ELSE cleared

\* fs.readdir resolved with the files of the directory
ClearReadsDir(o) ==
    /\ ops[o].pc = "readdir"
    /\ IF DiskFiles = {}
       THEN ClearEnds(o, {}, 200)
       ELSE /\ ops' = [ops EXCEPT ![o].pc = "unlink", ![o].files = DiskFiles]
            /\ UNCHANGED cleared
    /\ UNCHANGED <<cacheVars, retryVars, chunkVars, healVars, progressVars, reqVars, clientVars>>

\* fs.unlink of the next file of the listing, whose order is the file
\* system's: the file is removed, or it is gone already and the handler
\* replies 500
ClearUnlinks(o) ==
    /\ ops[o].pc = "unlink"
    /\ \E f \in ops[o].files :
          IF f \in DiskFiles
          THEN /\ cacheIndex' = IF f.index THEN EmptyMap ELSE cacheIndex
               /\ cacheFiles' = IF f.index THEN cacheFiles ELSE MapDrop(cacheFiles, f.key)
               /\ IF ops[o].files = {f}
                  THEN ClearEnds(o, {}, 200)
                  ELSE /\ ops' = [ops EXCEPT ![o].files = @ \ {f}]
                       /\ UNCHANGED cleared
          ELSE /\ ClearEnds(o, ops[o].files, 500)
               /\ UNCHANGED <<cacheIndex, cacheFiles>>
    /\ UNCHANGED <<now, cacheWrites, retryVars, chunkVars, healVars, progressVars, reqVars, clientVars>>

CacheInit ==
    /\ ops = [o \in 1..MaxOps |-> IdleOp]
    /\ cleared = FALSE
    /\ RetryIdle /\ ChunkIdle /\ HealIdle /\ ProgressIdle /\ RequestIdle /\ CacheIdle /\ ClientIdle

CacheNext ==
    \E o \in DOMAIN ops :
       \/ StartSave(o)
       \/ SaveWritesFile(o)
       \/ SaveLoadsIndex(o)
       \/ SaveStoresIndex(o)
       \/ StartClear(o)
       \/ ClearReadsDir(o)
       \/ ClearUnlinks(o)

SpecCache == CacheInit /\ [][CacheNext]_vars

(***************************************************************************)
(* SpecClient: useTranslate.translateStream of the client, from the return *)
(* of the call on.  The promise chain advances when fetch or reader.read() *)
(* settles; the caller may call the returned function while the chain      *)
(* waits, after it ended, or from inside onChunk or onComplete.  A read    *)
(* gives any number of whole notifications.                                *)
(***************************************************************************)
\* what the stream endpoint writes before res.end(): an error alone, or start,
\* the chunks and done, or start, some chunks and an error
ServerStreams ==
    {<<"error">>}
    \cup {<<"start">> \o Repeat("chunk", k) \o <<"done">> : k \in 1..MaxFrames}
    \cup {<<"start">> \o Repeat("chunk", k) \o <<"error">> : k \in 0..MaxFrames}

\* the reply to fetch: a stream of the endpoint, or a status that is not ok
Replies ==
    {[ok |-> TRUE, frames |-> f] : f \in ServerStreams}
    \cup {[ok |-> FALSE, frames |-> <<>>]}

\* translateStream up to its return statement
ClientInit ==
    /\ wire \in Replies
    /\ clientPc = "fetch"
    /\ lines = <<>> /\ assembledText = 0 /\ aborted = FALSE
    /\ isTranslating = TRUE /\ error = "null" /\ invoked = <<>>
    /\ RetryIdle /\ ChunkIdle /\ HealIdle /\ ProgressIdle /\ OpsIdle /\ RequestIdle /\ CacheIdle

\* .catch((err) => ...) and .finally(() => ...) after a throw with message msg
Thrown(msg) ==
    /\ clientPc' = "settled"
    /\ lines' = <<>>
    /\ error' = IF aborted THEN error ELSE msg
    /\ isTranslating' = IF aborted THEN isTranslating ELSE FALSE
    /\ invoked' = IF aborted THEN invoked ELSE Append(invoked, "setError")

\* fetch settles: rejected after an abort; else the then callback runs to
\* its first await, or throws on a status that is not ok
FetchSettles ==
    /\ clientPc = "fetch"
    /\ IF aborted \/ ~wire.ok
       THEN Thrown("Stream failed")
       ELSE clientPc' = "read" /\ UNCHANGED <<lines, error, isTranslating, invoked>>
    /\ UNCHANGED <<wire, assembledText, aborted>>
    /\ UNCHANGED <<retryVars, chunkVars, healVars, progressVars, opVars, reqVars, cacheVars>>

\* reader.read() settles: rejected after an abort; done at the end of the
\* reply, and then finally runs; else the buffer is split into lines
ReadSettles ==
    /\ clientPc = "read"
    /\ IF aborted
       THEN Thrown("AbortError") /\ UNCHANGED wire
       ELSE IF wire.frames = <<>>
       THEN /\ clientPc' = "settled"
            /\ isTranslating' = FALSE
            /\ UNCHANGED <<wire, lines, error, invoked>>
       ELSE \E k \in 1..Len(wire.frames) :
              /\ lines' = SubSeq(wire.frames, 1, k)
              /\ wire' = [wire EXCEPT !.frames = SubSeq(@, k + 1, Len(@))]
              /\ clientPc' = "lines"
              /\ UNCHANGED <<error, isTranslating, invoked>>
    /\ UNCHANGED <<assembledText, aborted>>
    /\ UNCHANGED <<retryVars, chunkVars, healVars, progressVars, opVars, reqVars, cacheVars>>

\* the for loop goes to its next line; after the last one the while test
\* is made, and reader.read() is called or the chain ends through finally,
\* which does nothing after an abort
NextLine(callback, inside) ==
    /\ lines' = Tail(lines)
    /\ aborted' = (aborted \/ inside)
    /\ isTranslating' = IF inside THEN FALSE ELSE isTranslating
    /\ invoked' = invoked \o (IF callback = "none" THEN <<>> ELSE <<callback>>)
                          \o (IF inside THEN <<"abort in callback">> ELSE <<>>)
    /\ clientPc' = IF Tail(lines) # <<>> THEN "lines"
                   ELSE IF aborted \/ inside THEN "settled" ELSE "read"
    /\ UNCHANGED error

\* One iteration of for (const line of lines).  inside: the callback calls
\* the function translateStream returned; parses: rebuildJSON returns.
HandleLine(inside, parses) ==
    /\ clientPc = "lines" /\ lines # <<>>
    /\ inside => ~aborted
    /\ CASE Head(lines) = "start" ->
              /\ ~inside
              /\ NextLine("none", FALSE)
              /\ UNCHANGED assembledText
         [] Head(lines) = "chunk" ->
              /\ assembledText' = assembledText + 1
              /\ NextLine("onChunk", inside)
         [] Head(lines) = "done" /\ parses ->
              /\ NextLine("onComplete", inside)
              /\ UNCHANGED assembledText
         [] Head(lines) = "done" /\ ~parses ->
              \* setError('Failed to parse translated JSON'); throw err
              /\ ~inside
              /\ clientPc' = "settled"
              /\ lines' = <<>>
              /\ error' = IF aborted THEN "Failed to parse translated JSON" ELSE "rebuildJSON"
              /\ isTranslating' = IF aborted THEN isTranslating ELSE FALSE
              /\ invoked' = invoked \o <<"setError">>
                                    \o (IF aborted THEN <<>> ELSE <<"setError">>)
              /\ UNCHANGED <<assembledText, aborted>>
         [] Head(lines) = "error" ->
              \* setError(errMsg); throw new Error(errMsg)
              /\ ~inside
              /\ clientPc' = "settled"
              /\ lines' = <<>>
              /\ error' = "errMsg"
              /\ isTranslating' = IF aborted THEN isTranslating ELSE FALSE
              /\ invoked' = invoked \o <<"setError">>
                                    \o (IF aborted THEN <<>> ELSE <<"setError">>)
              /\ UNCHANGED <<assembledText, aborted>>
    /\ UNCHANGED wire
    /\ UNCHANGED <<retryVars, chunkVars, healVars, progressVars, opVars, reqVars, cacheVars>>

\* the function translateStream returned, called while the chain waits for
\* fetch or for a read, or after it ended
Abort ==
    /\ clientPc \in {"fetch", "read", "settled"}
    /\ ~aborted
    /\ aborted' = TRUE
    /\ isTranslating' = FALSE
    /\ invoked' = Append(invoked, "abort")
    /\ UNCHANGED <<wire, clientPc, lines, assembledText, error>>
    /\ UNCHANGED <<retryVars, chunkVars, healVars, progressVars, opVars, reqVars, cacheVars>>

HandleLines == \E inside, parses \in BOOLEAN : HandleLine(inside, parses)

ClientNext == FetchSettles \/ ReadSettles \/ HandleLines \/ Abort

SpecClient == ClientInit /\ [][ClientNext]_vars

\* fetch and reader.read() settle, the server ending every reply, and a
\* callback that was entered runs on
SpecClientFair ==
    SpecClient /\ WF_vars(FetchSettles) /\ WF_vars(ReadSettles) /\ WF_vars(HandleLines)

(***************************************************************************)
(* Claims about withRetryAndFallback (checked under SpecRetry)             *)
(***************************************************************************)
Retryable(rev, o) == is429(rev, o) \/ is503(rev, o)
CallsOf(log) == SelectSeq(log, LAMBDA e : e.ev = "call")
SleepsOf(log) == SelectSeq(log, LAMBDA e : e.ev = "sleep")

\* C6: a call of the operation, on either tier, that fails with an error that
\* is neither 429 nor 503 ends the run at once with that very error (no
\* further call, no sleep), and a call that succeeds ends the run with its
\* value.
C6_NonRetryablePropagates ==
    /\ (rs.last.kind = "error" /\ ~Retryable(rs.rev, rs.last))
          => (rs.pc = "thrown" /\ rs.error = rs.last)
    /\ rs.last.kind = "ok" => rs.pc = "returned"

\* C7: the operation is invoked at most maxAttempts times, both tiers
\* counted; the run is bounded; a run that used up its attempts made exactly
\* maxAttempts calls, and a run whose calls all failed never returns a value.
C7_AtMostMaxAttempts ==
    /\ rs.calls <= rs.retries
    /\ Len(rs.log) <= 2 * rs.retries
    /\ (rs.pc = "thrown" /\ rs.error.kind = "exhausted") => rs.calls = rs.retries
    /\ rs.pc = "returned" => rs.last.kind = "ok"

\* C8: with 4 allowed attempts and every call failing with a retryable error,
\* the run ends in failure after exactly 3 sleeps; each sleep lies between
\* the last call of one attempt and the first call of the next, none follows
\* the last call, the first lasts the seed delay and each next one twice the
\* previous, and the third attempt calls the Fallback tier.
C8_BackoffScenario ==
    (rs.retries = 4 /\ rs.pc = "thrown" /\ rs.error.kind = "exhausted") =>
        LET log == rs.log
            sleeps == SleepsOf(log)
        IN  /\ Len(sleeps) = 3
            /\ sleeps[1].delay = SeedDelay(rs.rev)
            /\ \A k \in 1..2 : /\ sleeps[k + 1].delay = 2 * sleeps[k].delay
                               /\ sleeps[k + 1].delay > sleeps[k].delay
            /\ log[Len(log)].ev = "call"
            /\ \A p \in 1..Len(log) :
                  log[p].ev = "sleep" =>
                     /\ 1 < p /\ p < Len(log)
                     /\ log[p - 1].ev = "call" /\ log[p - 1].attempt = log[p].attempt
                     /\ log[p + 1].ev = "call" /\ log[p + 1].attempt = log[p].attempt + 1
            /\ \E p \in 1..Len(log) :
                  /\ log[p].ev = "call" /\ log[p].attempt = 2
                  /\ log[p].model = "fallbackModel"

\* the always-429 run of C8 came to its end
C8_Witness ==
    /\ rs.retries = 4 /\ rs.pc = "thrown" /\ rs.error.kind = "exhausted"
    /\ rs.last.kind = "error" /\ rs.last.status = 429
    /\ Len(SleepsOf(rs.log)) = 3

\* C9: every call of an attempt before the third uses the Primary tier, every
\* call of the third and of any later attempt uses the Fallback tier, and no
\* call on Primary follows a call on Fallback.
C9_FallbackSticky ==
    LET calls == CallsOf(rs.log) IN
    /\ \A p \in 1..Len(calls) :
          calls[p].model = IF calls[p].attempt < 2 THEN "primaryModel"
                                                   ELSE "fallbackModel"
    /\ \A p, q \in 1..Len(calls) :
          (p < q /\ calls[p].model = "fallbackModel") => calls[q].model = "fallbackModel"

(***************************************************************************)
(* Claims about smartSplitChunks (checked under SpecChunk)                 *)
(***************************************************************************)
\* Where a reader of the text stands after its first n characters: inside a
\* string literal or not, and whether the next character is escaped.
RECURSIVE Lexed(_, _)
Lexed(text, n) ==
    IF n = 0 THEN [quoted |-> FALSE, escaped |-> FALSE]
    ELSE LET before == Lexed(text, n - 1) IN
         IF before.escaped THEN [before EXCEPT !.escaped = FALSE]
         ELSE IF text[n] = "\\" THEN [before EXCEPT !.escaped = TRUE]
         ELSE IF text[n] = "\"" THEN [before EXCEPT !.quoted = ~@]
         ELSE before

\* Whitespace occurs only inside string literals and every literal is closed,
\* as in every output of JSON.stringify without an indent argument.
CompactText(text) ==
    /\ \A n \in 1..Len(text) :
          IsSpace(text[n]) => (Lexed(text, n - 1).quoted /\ ~Lexed(text, n - 1).escaped)
    /\ ~Lexed(text, Len(text)).quoted
    /\ ~Lexed(text, Len(text)).escaped

\* C10 as claimed: for every input text and every maxLength >= 1, the
\* segments of smartSplitChunks joined in order are the input text.
C10_ConcatReproducesInput ==
    splitOut[1] = "chunks" => Join(splitOut[2]) = jsonStr

\* C10 as amended: for every input text whose whitespace lies inside closed
\* string literals only, and every maxLength >= 1, the segments joined in
\* order are the input text.
C10_ConcatReproducesCompact ==
    (splitOut[1] = "chunks" /\ CompactText(jsonStr))
        => Join(splitOut[2]) = jsonStr

\* a text with a blank inside a literal was split into several segments
C10_Witness ==
    /\ splitOut[1] = "chunks" /\ CompactText(jsonStr)
    /\ Len(splitOut[2]) >= 2
    /\ \E n \in 1..Len(jsonStr) : IsSpace(jsonStr[n])

\* The bracket depth a reader of the text has after its first n characters:
\* opening minus closing brackets, counted outside string literals.
RECURSIVE Depth(_, _)
Depth(text, n) ==
    IF n = 0 THEN 0
    ELSE LET before == Lexed(text, n - 1) IN
         Depth(text, n - 1) +
            (IF before.escaped \/ before.quoted THEN 0
             ELSE IF text[n] \in {"{", "["} THEN 1
             ELSE IF text[n] \in {"}", "]"} THEN -1
             ELSE 0)

\* the positions of the input after which the scan closed a segment
Boundaries ==
    {n \in 1..Len(jsonStr) :
        Len(ScanTo(jsonStr, n, maxLength).chunks) >
            Len(ScanTo(jsonStr, n - 1, maxLength).chunks)}

\* C11: for every input text, every position after which a segment is closed
\* has bracket depth zero and lies outside a string literal; an escaped quote
\* leaves the scanner's in-string flag as it was; and there is no segment
\* that is not ended by such a position or by the end of the text.
C11_BoundariesAtDepthZero ==
    splitOut[1] = "chunks" =>
       /\ \A n \in Boundaries :
             /\ Depth(jsonStr, n) = 0
             /\ ~Lexed(jsonStr, n).quoted
             /\ ~Lexed(jsonStr, n).escaped
       /\ \A n \in 1..Len(jsonStr) :
             (jsonStr[n] = "\"" /\ Lexed(jsonStr, n - 1).escaped) =>
                ScanTo(jsonStr, n, maxLength).inString =
                    ScanTo(jsonStr, n - 1, maxLength).inString
       /\ Len(splitOut[2]) <= Cardinality(Boundaries) + 1

\* a text was split into two segments after a literal that holds a bracket
C11_Witness ==
    /\ splitOut[1] = "chunks" /\ Len(splitOut[2]) >= 2
    /\ \E n \in Boundaries :
          /\ n < Len(jsonStr)
          /\ \E m \in 1..(n - 1) :
                jsonStr[m] \in {"{", "[", "}", "]"} /\ Lexed(jsonStr, m).quoted

\* a text of blanks only
Blank(text) == \A n \in 1..Len(text) : IsSpace(text[n])

\* the string literals of the text: <<p, q>> when an opening quote stands at
\* p and its closing quote at q
Literals(text) ==
    {pq \in (1..Len(text)) \X (1..Len(text)) :
        /\ pq[1] < pq[2]
        /\ ~Lexed(text, pq[1] - 1).quoted
        /\ \A m \in pq[1]..(pq[2] - 1) : Lexed(text, m).quoted
        /\ ~Lexed(text, pq[2]).quoted}

\* piece occurs in seg as a contiguous part
Contains(seg, piece) ==
    \E k \in 0..(Len(seg) - Len(piece)) : SubSeq(seg, k + 1, k + Len(piece)) = piece

\* no segment is empty, and a literal longer than maxLength lies whole in one
\* segment, no segment being closed inside it
SegmentsWhole ==
    /\ \A i \in 1..Len(splitOut[2]) : splitOut[2][i] # <<>>
    /\ \A pq \in Literals(jsonStr) :
          pq[2] - pq[1] + 1 > maxLength =>
             /\ \A n \in Boundaries : n < pq[1] \/ n >= pq[2]
             /\ \E i \in 1..Len(splitOut[2]) :
                   Contains(splitOut[2][i], SubSeq(jsonStr, pq[1], pq[2]))

\* C12 as claimed: every segment is non-empty, an input shorter than
\* maxLength gives exactly one segment, and a string literal longer than
\* maxLength is never split.
C12_ChunkerEdgeCases ==
    splitOut[1] = "chunks" =>
       /\ SegmentsWhole
       /\ Len(jsonStr) < maxLength => Len(splitOut[2]) = 1

\* C12 as amended: every segment is non-empty, an input shorter than
\* maxLength that is not blank gives exactly one segment and a blank or empty
\* input gives none, and a string literal longer than maxLength is never
\* split.
C12_ChunkerEdgeCasesNonBlank ==
    splitOut[1] = "chunks" =>
       /\ SegmentsWhole
       /\ (Len(jsonStr) < maxLength /\ ~Blank(jsonStr)) => Len(splitOut[2]) = 1
       /\ Blank(jsonStr) => splitOut[2] = <<>>

\* a literal longer than maxLength was kept whole and a segment follows it
C12_Witness ==
    /\ splitOut[1] = "chunks" /\ Len(splitOut[2]) = 2
    /\ \E pq \in Literals(jsonStr) :
          /\ pq[2] - pq[1] + 1 > maxLength
          /\ splitOut[2][1] = SubSeq(jsonStr, pq[1], pq[2])

(***************************************************************************)
(* Claims about healJSON (SpecHeal) and the round trip (SpecRoundTrip)     *)
(***************************************************************************)
\* C18: for every text x, healJSON(healJSON(x)) = healJSON(x), in both
\* revisions.
C18_HealIdempotent ==
    healOut[1] = "healed" => healOut[3] = healOut[2]

\* C19: for every document with an ASCII string leaf, braces, brackets,
\* commas and backticks in the leaf included, the pipeline run with a
\* translator that returns its input gives a document equal to the input.
C19_RoundTrip ==
    healOut[1] = "parsed" => healOut[2] = Parsed(doc)

(***************************************************************************)
(* Claims about POST /api/translate-stream (checked under SpecStream)      *)
(***************************************************************************)
EventsOf(type) == SelectSeq(events, LAMBDA e : e.type = type)
Terminal(e) == e.type \in {"done", "error"}

\* C2: at most one segment translation is in progress and at most one
\* request to the service is in flight; translations begin in index order
\* 0, 1, 2, ...; and when the translation of a segment has begun, the chunk
\* notification of every earlier segment is already written.
C2_OneInFlightInOrder ==
    /\ Cardinality(DOMAIN frames) <= 1
    /\ Cardinality(InFlight) <= 1
    /\ \A p \in 1..Len(started) : started[p] = p - 1
    /\ \A p \in 1..Len(started) :
          \A j \in 0..(started[p] - 1) :
             \E q \in 1..Len(events) : events[q].type = "chunk" /\ events[q].index = j

\* the second segment is being translated, with a request in flight
C2_Witness ==
    /\ Len(started) >= 2
    /\ InFlight = {1}
    /\ Len(EventsOf("chunk")) = 1

\* the notifications written so far are a start, chunk notifications numbered
\* 0, 1, 2, ... and at most one terminal notification, which is the last; a
\* done follows a chunk notification for every announced segment
Framed ==
    /\ \A p \in 1..Len(events) :
          /\ (events[p].type = "start") <=> (p = 1)
          /\ events[p].type = "chunk" => events[p].index = p - 2
          /\ Terminal(events[p]) => p = Len(events)
          /\ events[p].type = "done" => events[1].chunks = p - 2
    /\ ended => (events # <<>> /\ Terminal(events[Len(events)]))
    /\ pc = "closed" => ended

\* C3 as claimed: every run of the streamed endpoint writes start, chunk
\* notifications with consecutive indices from 0, then exactly one terminal
\* notification and nothing after it; done only after a chunk notification
\* for every announced segment, never together with error.
C3_StreamFraming == Framed

\* C3 as amended: that framing holds in every run whose request names a
\* target language and a document; a request that lacks one is answered with
\* the error notification alone, with no start.
C3_StreamFramingValid ==
    IF targetLang = "" \/ data = <<>>
    THEN /\ events \in {<<>>, <<ErrorEvent>>}
         /\ ended <=> events = <<ErrorEvent>>
    ELSE Framed

\* a document of several segments was streamed to its done notification
C3_Witness ==
    /\ ended /\ Len(chunks) >= 2
    /\ Len(events) = Len(chunks) + 2
    /\ events[Len(events)].type = "done"

\* C4: once the translation of segment i has failed, the stream holds exactly
\* one error notification, its last, and is closed; no translation of a later
\* segment has begun or is in progress, no done is written, and no cache
\* entry is written.
C4_StreamAbort ==
    \A i \in failed :
       /\ ended /\ pc = "closed"
       /\ Len(EventsOf("error")) = 1
       /\ events[Len(events)].type = "error"
       /\ EventsOf("done") = <<>>
       /\ \A p \in 1..Len(started) : started[p] <= i
       /\ frames = EmptyMap
       /\ cacheWrites = 0
       /\ \A k \in DOMAIN cacheIndex : cacheIndex[k].timestamp # now

\* the first segment was translated and the second failed, with a third left
C4_Witness ==
    /\ failed = {1}
    /\ Len(chunks) >= 3
    /\ Len(EventsOf("chunk")) = 1

(***************************************************************************)
(* Claims about bulk mode (checked under SpecBulk)                         *)
(***************************************************************************)
\* every segment of the request has settled
BulkComplete ==
    /\ chunks # <<>>
    /\ IF revision = "head" THEN pc = "returned" ELSE idx >= Len(chunks)

\* the assembled list: results (head), translatedChunks (server)
Assembled == IF revision = "head" THEN results ELSE translatedChunks

\* C1: whatever the order in which the concurrent calls complete, the
\* assembled list has one entry per segment, and entry i is the translation
\* of segment i or its original text: no slot is unfilled and no entry comes
\* from another segment.
C1_BulkOrdering ==
    BulkComplete =>
       /\ Len(Assembled) = Len(chunks)
       /\ \A i \in 1..Len(chunks) :
             Assembled[i] \in {Translated(chunks[i]), chunks[i]}

\* C5: a segment whose translation failed does not end the batch: while
\* segments are left the request goes on, and in the assembled list every
\* failed segment holds its original text, every other segment a
\* translation, every segment having been taken up once.
C5_BulkDegradation ==
    /\ (failed # {} /\ ~BulkComplete) =>
          /\ pc \in {"await", "batch"}
          /\ (queue # <<>> \/ pc = "batch") => frames # EmptyMap
    /\ BulkComplete =>
          /\ Len(Assembled) = Len(chunks)
          /\ \A i \in 1..Len(chunks) :
                IF (i - 1) \in failed
                THEN Assembled[i] = chunks[i]
                ELSE Assembled[i].kind = "translated"
          /\ \A i \in 0..(Len(chunks) - 1) :
                Cardinality({p \in 1..Len(started) : started[p] = i}) = 1

\* a batch in which one segment failed and another was translated after it
C5_Witness ==
    /\ BulkComplete /\ Len(chunks) >= 3
    /\ 0 \in failed /\ Cardinality(failed) = 1
    /\ Assembled[1] = chunks[1]
    /\ Assembled[Len(chunks)] = Translated(chunks[Len(chunks)])

\* C16: in translateInParallel, whatever the number of workers and the order
\* in which their awaits resume, no segment is taken from the queue twice, no
\* two workers hold the same segment, every segment is either still queued or
\* taken, and at the return every segment has been taken exactly once.
C16_QueueExclusive ==
    (endpoint = "parallel" /\ pc # "call") =>
       LET taken == {started[p] : p \in 1..Len(started)}
           queued == {queue[p].index : p \in 1..Len(queue)}
       IN  /\ \A p, q \in 1..Len(started) : p # q => started[p] # started[q]
           /\ \A v, w \in DOMAIN frames :
                 v # w => frames[v].item.index # frames[w].item.index
           /\ taken \cap queued = {}
           /\ taken \cup queued = 0..(Len(chunks) - 1)
           /\ \A p \in 1..Len(queue) : queue[p] = Items(chunks)[queue[p].index + 1]
           /\ \A w \in DOMAIN frames : frames[w].item.index \in taken
           /\ pc = "returned" => (queue = <<>> /\ Len(started) = Len(chunks))

\* two workers are at their awaits, one of them on the segment it took from
\* the queue after its first one
C16_Witness ==
    /\ endpoint = "parallel" /\ maxConcurrent = 2 /\ Len(chunks) = 3
    /\ queue = <<>> /\ Len(started) = 3
    /\ Cardinality(InFlight) = 2

(***************************************************************************)
(* Claims about the translation cache and the requests                     *)
(***************************************************************************)
\* the cache key of the request's document and language
RequestKey == generateCacheKey(data, targetLang)

\* C13: a request to the fast endpoint that completed with a save leaves an
\* entry created at that time with the payload it returned; a request that
\* finds an entry for its document and language created no more than 7 days
\* before returns the stored payload and starts no translation; one that
\* finds an entry created more than 7 days before translates again.
C13_CacheHitAndExpiry ==
    endpoint = "fast" =>
       /\ (pc = "closed" /\ cacheWrites = 1) =>
             /\ response.status = 200
             /\ RequestKey \in DOMAIN cacheIndex
             /\ cacheIndex[RequestKey].timestamp = now
             /\ cacheFiles[RequestKey] = response.body
       /\ (RequestKey \in DOMAIN cacheIndex /\ cacheWrites = 0
             /\ pc \notin {"request", "lookup"}) =>
             IF now - cacheIndex[RequestKey].timestamp <= maxAge
             THEN /\ pc = "closed"
                  /\ response = [status |-> 200, body |-> cacheFiles[RequestKey]]
                  /\ started = <<>> /\ frames = EmptyMap
             ELSE /\ started # <<>>
                  /\ pc = "batch" => InFlight # {} \/ \E k \in DOMAIN frames : frames[k].rs.calls > 0

\* a request made 7 days after the request that stored the entry was answered
\* from the cache
C13_Witness ==
    /\ endpoint = "fast" /\ pc = "closed" /\ cacheWrites = 0
    /\ RequestKey \in DOMAIN cacheIndex
    /\ cacheIndex[RequestKey].timestamp > 0
    /\ now - cacheIndex[RequestKey].timestamp = maxAge
    /\ response.status = 200 /\ started = <<>>

\* the request has an error outcome: an error notification in stream mode,
\* a 400 or 500 reply in fast mode
ErrorOutcome ==
    \/ endpoint = "stream" /\ EventsOf("error") # <<>>
    \/ endpoint = "fast" /\ response.status \in {400, 500}

\* C14: in both modes a request with an error outcome has written nothing to
\* the cache, and the cache changes only in the step that follows a
\* successful parse of the healed text, which ends the request without an
\* error outcome.
C14_NoCacheForFailed ==
    /\ [](ErrorOutcome => cacheWrites = 0)
    /\ [][(cacheIndex' # cacheIndex \/ cacheFiles' # cacheFiles) =>
             /\ pc = "save" /\ pc' = "closed"
             /\ cacheWrites = 0 /\ cacheWrites' = 1
             /\ ~ErrorOutcome'
             /\ IF endpoint = "stream"
                THEN events'[Len(events')].type = "done"
                     /\ Len(translatedChunks) = Len(chunks)
                ELSE response'.status = 200]_vars

\* every segment of a streamed document was translated, the final parse
\* failed, and the cache is as empty as before
C14_Witness ==
    /\ endpoint = "stream" /\ revision = "server" /\ pc = "closed"
    /\ chunks # <<>> /\ Len(EventsOf("chunk")) = Len(chunks)
    /\ events[Len(events)].type = "error"
    /\ cacheIndex = EmptyMap /\ cacheFiles = EmptyMap /\ cacheWrites = 0

\* C15: a request that lacks the target language or the document is answered
\* at once with an error (the error notification alone in stream mode, 400 in
\* fast mode): no translation is started, the cache is neither looked up nor
\* written, and no start, chunk or done notification is written.
C15_ValidationRejects ==
    (endpoint \in {"stream", "fast"} /\ (targetLang = "" \/ data = <<>>)) =>
       /\ pc \in {"request", "closed"}
       /\ started = <<>> /\ frames = EmptyMap /\ chunks = <<>>
       /\ cacheWrites = 0 /\ cacheIndex = EmptyMap /\ cacheFiles = EmptyMap
       /\ pc = "request" => (events = <<>> /\ response = NoResponse /\ ~ended)
       /\ pc = "closed" =>
             IF endpoint = "stream"
             THEN events = <<ErrorEvent>> /\ ended /\ response = NoResponse
             ELSE response = [status |-> 400, body |-> <<>>] /\ events = <<>>

\* a fast request with a document and no target language was answered 400
C15_Witness ==
    /\ endpoint = "fast" /\ targetLang = "" /\ data # <<>>
    /\ pc = "closed" /\ response.status = 400

\* C17: after the caller aborted a streamed request the translation of no
\* further segment begins, and nothing is written to the cache.
C17_NoCallsAfterAbort ==
    abortedAt # -1 =>
       /\ Len(started) = abortedAt
       /\ cacheWrites = 0

\* C20: once a lookup has found an entry older than 7 days, the entry is
\* gone from the index, and cache-stats does not count it.
C20_LazyEviction ==
    (revision = "server" /\ endpoint = "stream" /\ pc \notin {"request", "lookup"}) =>
       /\ \A k \in DOMAIN cacheIndex : now - cacheIndex[k].timestamp <= maxAge
       /\ cacheStats.totalTranslations =
             Cardinality({k \in DOMAIN cacheIndex : now - cacheIndex[k].timestamp <= maxAge})

\* C21: in both modes, once JSON.parse of the healed concatenation has
\* failed, the request is over with an error and nothing else: in stream mode
\* one error notification, the last, after the chunk notification of every
\* segment, and no done; in fast mode a 500 reply without a document; this
\* also when every segment was translated or replaced by its original text.
\* Nothing is written to the cache.
C21_FinalParseFailureTerminal ==
    finalParse = "failed" =>
       /\ pc = "closed"
       /\ cacheWrites = 0
       /\ Len(translatedChunks) = Len(chunks)
       /\ IF endpoint = "stream"
          THEN /\ ended
               /\ events[Len(events)].type = "error"
               /\ Len(EventsOf("error")) = 1
               /\ EventsOf("done") = <<>>
               /\ Len(EventsOf("chunk")) = Len(chunks)
               /\ failed = {}
          ELSE /\ endpoint = "fast"
               /\ response = [status |-> 500, body |-> <<>>]
               /\ events = <<>>

\* a fast request in which one segment was replaced by its original text and
\* the others were translated ended with a failed final parse
C21_Witness ==
    /\ endpoint = "fast" /\ finalParse = "failed"
    /\ Len(chunks) >= 2 /\ Cardinality(failed) = 1
    /\ \E i \in 1..Len(chunks) : translatedChunks[i] = Translated(chunks[i])
    /\ response.status = 500

\* the withRetryAndFallback calls of segments that have not settled
Unsettled == {k \in DOMAIN frames : ~Settled(frames[k])}

\* the pool size of the request
PoolSize == IF endpoint = "parallel" THEN maxConcurrent ELSE batchSize

\* C22: during one bulk request, whatever the number of segments and the
\* timing of the retries, no more than N segment translations are in
\* progress and no more than N requests to the service are in flight, N
\* being maxConcurrent in translateInParallel and batchSize = 3 in the fast
\* endpoint.
C22_BoundedConcurrency ==
    (endpoint \in {"parallel", "fast"} /\ pc # "call") =>
       /\ Cardinality(Unsettled) <= PoolSize
       /\ Cardinality(InFlight) <= PoolSize
       /\ Cardinality(DOMAIN frames) <= PoolSize

\* a fast request of more segments than batchSize has batchSize requests in
\* flight, one of them a retry
C22_Witness ==
    /\ endpoint = "fast" /\ Len(chunks) > batchSize
    /\ Cardinality(InFlight) = batchSize
    /\ \E k \in DOMAIN frames : frames[k].rs.attempt >= 1

\* translateInParallel has maxConcurrent requests in flight and segments
\* still queued
C22_WitnessPool ==
    /\ endpoint = "parallel" /\ queue # <<>>
    /\ Cardinality(InFlight) = maxConcurrent /\ maxConcurrent >= 2

(***************************************************************************)
(* Claims about the progress of the stream (checked under SpecProgress)    *)
(***************************************************************************)
\* round(100 * (i + 1) / n) in exact arithmetic, a half rounded up
ExactPercent(i, n) == (200 * (i + 1) + n) \div (2 * n)

\* C23: the chunk notification of segment i of n carries index i and the
\* percentage round(100 * (i + 1) / n); the percentage is not below that of
\* the notification before it; and the notification of the last segment
\* carries 100.
C23_StreamProgress ==
    notification[1] = "chunk" =>
       /\ notification[2].index = segment
       /\ notification[2].progress = ExactPercent(segment, total)
       /\ segment > 0 => Progress(segment - 1, total) <= notification[2].progress
       /\ segment = total - 1 => notification[2].progress = 100

\* What holds of C23 for every i < n: the index, a percentage that is an
\* integer nearest to 100 * (i + 1) / n (either neighbour when the quotient
\* lies halfway), percentages that do not decrease, and 100 at the end.
C23_NearestPercent ==
    notification[1] = "chunk" =>
       LET p == notification[2].progress IN
       /\ notification[2].index = segment
       /\ 2 * total * p - 200 * (segment + 1) \in (0 - total)..total
       /\ segment > 0 => Progress(segment - 1, total) <= p
       /\ segment = total - 1 => p = 100

(***************************************************************************)
(* Claims about the cache operations (checked under SpecCache)             *)
(***************************************************************************)
\* C24: after clear-cache ran to its end with no other cache operation in
\* flight, and before another save begins, every lookup is a miss and
\* cache-stats reports no entry and no language.
C24_ClearEmptiesCache ==
    cleared =>
       /\ \A k \in CacheKeys : getCachedTranslation(k) = <<>>
       /\ cacheStats = [totalTranslations |-> 0, languages |-> EmptyMap]
       /\ cacheFiles = EmptyMap

\* two entries in two languages were stored and a clear that ran alone
\* removed them
C24_Witness ==
    /\ cleared
    /\ \E o \in DOMAIN ops : ops[o].kind = "clear" /\ ops[o].pc = "done"
    /\ \A k \in CacheKeys :
          \E o \in DOMAIN ops : ops[o].kind = "save" /\ ops[o].pc = "done" /\ ops[o].key = k

\* the keys whose save ran to its end
SavedKeys == {ops[o].key : o \in {p \in DOMAIN ops : ops[p].kind = "save" /\ ops[p].pc = "done"}}

\* no operation is in flight, and no clear was called
OnlySavesRan ==
    /\ InFlightOps = {}
    /\ \A o \in DOMAIN ops : ops[o].kind # "clear"

\* C27: when saveCachedTranslation ran for different keys, in any
\* interleaving of the file and index reads and writes, and all the calls
\* have returned, the index holds every one of the keys and a lookup of
\* each returns its payload.
C27_ConcurrentSaves ==
    OnlySavesRan =>
       \A k \in SavedKeys :
          /\ k \in DOMAIN cacheIndex
          /\ getCachedTranslation(k) = PayloadOf(k)

\* C28: when any interleaving of saves and clears has run to its end, every
\* key of the index has its payload on disk, and the number of entries that
\* cache-stats reports is the number of keys whose lookup returns a payload.
C28_IndexMatchesPayloads ==
    InFlightOps = {} =>
       /\ \A k \in DOMAIN cacheIndex : k \in DOMAIN cacheFiles
       /\ cacheStats.totalTranslations =
             Cardinality({k \in CacheKeys : getCachedTranslation(k) # <<>>})

(***************************************************************************)
(* Further claims about healJSON (checked under SpecHeal)                  *)
(***************************************************************************)
\* C25: for every input text, the output of healJSON of the HEAD revision
\* begins with an opening brace or bracket, ends with the closer that
\* matches its first character, and holds at least as many closing braces
\* as opening ones and at least as many closing brackets as opening ones.
C25_HealerClosers ==
    (healOut[1] = "healed" /\ revision = "head") =>
       LET out == healOut[2] IN
       /\ out # <<>>
       /\ out[1] \in {"{", "["}
       /\ out[Len(out)] = IF out[1] = "{" THEN "}" ELSE "]"
       /\ Count(out, "}") >= Count(out, "{")
       /\ Count(out, "]") >= Count(out, "[")

\* What holds of C25 for every input text: the output begins with an
\* opening brace or bracket, ends with a closing brace or bracket, and holds
\* no more openers than closers of either kind.
C25_HealerEndsWithACloser ==
    (healOut[1] = "healed" /\ revision = "head") =>
       LET out == healOut[2] IN
       /\ out # <<>>
       /\ out[1] \in {"{", "["}
       /\ out[Len(out)] \in {"}", "]"}
       /\ Count(out, "}") >= Count(out, "{")
       /\ Count(out, "]") >= Count(out, "[")

\* x is followed by y in t with nothing but blanks between them
Adjacent(t, x, y) ==
    \E p, q \in 1..Len(t) :
       /\ p < q /\ t[p] = x /\ t[q] = y
       /\ \A m \in (p + 1)..(q - 1) : IsSpace(t[m])

\* C26: for every input text, the output of healJSON holds no closing brace
\* followed, blanks aside, by an opening brace and no closing bracket
\* followed by an opening bracket.
C26_BoundaryCommas ==
    healOut[1] = "healed" =>
       /\ ~Adjacent(healOut[2], "}", "{")
       /\ ~Adjacent(healOut[2], "]", "[")

\* C26 for the HEAD revision alone.
C26_BoundaryCommasHead ==
    (healOut[1] = "healed" /\ revision = "head") =>
       /\ ~Adjacent(healOut[2], "}", "{")
       /\ ~Adjacent(healOut[2], "]", "[")

(***************************************************************************)
(* Claims about chunkCache and the cached documents                        *)
(***************************************************************************)
\* C29: a lookup in chunkCache for a text and a language returns a
\* translation only if it was stored for that very text and language: the
\* value a call takes from chunkCache is the translation of its own segment,
\* and so is every entry of the list of translated segments.
C29_SecondaryCacheExact ==
    /\ \A k \in DOMAIN frames :
          frames[k].hit => frames[k].value = Translated(frames[k].item.chunk)
    /\ \A i \in 1..Len(translatedChunks) :
          translatedChunks[i] = Translated(chunks[i])
\* C30: every document in the translation cache holds the translation of
\* each of its segments: a request in which the original text stood in for a
\* failed segment writes nothing to the cache, and no reply served from the
\* cache holds the original text of a segment.
C30_CachedDocumentsComplete ==
    /\ \A k \in DOMAIN cacheFiles :
          \A i \in 1..Len(cacheFiles[k]) : cacheFiles[k][i].kind = "translated"
    /\ failed # {} => cacheWrites = 0
    /\ (endpoint = "fast" /\ response.status = 200 /\ started = <<>>) =>
          \A i \in 1..Len(response.body) : response.body[i].kind = "translated"

C31_WitnessDefault ==
    /\ splitOut[1] = "chunks"
    /\ maxLength = DefaultMaxLength
    /\ jsonStr = ObjectOf(ArrayOfTwo(<<"{", "}">>, StringLiteral(<<"\\", " ", "}">>)))

(***************************************************************************)
(* Claims about translateStream of the client (SpecClient)                 *)
(***************************************************************************)
AbortCalls == {"abort", "abort in callback"}

\* no callback and no setError after the entries of kinds in the log
QuietAfter(kinds) ==
    \A i \in 1..Len(invoked) :
        invoked[i] \in kinds =>
            \A j \in (i + 1)..Len(invoked) :
                invoked[j] \notin {"onChunk", "onComplete", "setError"}

\* C32: once the function returned by translateStream has been called, at
\* any point, from inside a callback included, onChunk and onComplete are
\* not invoked again, no error is recorded, and isTranslating is false.
C32_QuietAfterAbort ==
    /\ QuietAfter(AbortCalls)
    /\ aborted => ~isTranslating

\* C32, for the calls made while the chain waits or after it ended: nothing
\* is invoked or recorded afterwards, and isTranslating is false after any call.
C32_QuietAfterAbortOutside ==
    /\ QuietAfter({"abort"})
    /\ aborted => ~isTranslating

\* an abort while a read was pending, after a chunk was delivered and with
\* notifications still to come
C32_WitnessOutside ==
    /\ invoked = <<"onChunk", "abort">>
    /\ clientPc = "settled"
    /\ wire.frames # <<>>

\* C32: in every run, aborted or not, isTranslating becomes false and stays
\* false; in the runs that are not aborted this is after the terminal
\* notification was handled or the reply ended.
C32_EventuallyIdle == <>[](~isTranslating)

====
